---- MODULE Spec2Model ----
(***************************************************************************)
(* Model of polymarket-winner-scanner: the RetryHandler and RateLimiter of *)
(* src/src/collector.js and the sync pipeline (main) of src/src/runner.js. *)
(* Three state machines share one variable tuple; each specification       *)
(* drives one of them and leaves the others at their initial values.       *)
(***************************************************************************)
EXTENDS Integers, Sequences, FiniteSets, TLC

VARIABLES
  \* ---- RetryHandler.executeWithRetry (one invocation) ----
  rhMaxRetries,    \* this.maxRetries
  rhBaseDelayMs,   \* this.baseDelayMs
  rhPc,            \* "call" | "sleeping" | "returned" | "thrown"
  rhAttempt,       \* loop variable attempt
  rhLastError,     \* local lastError
  rhCalls,         \* outcome of every call of fn(), in order
  rhWaits,         \* argument of every this.sleep(delay), in order
  rhResult,        \* value returned or error thrown by the invocation
  \* ---- RateLimiter (one instance, several callers) ----
  rlLimit,         \* this.limit
  rlWindowMs,      \* this.windowMs
  now,             \* Date.now()
  lastRequestTime, \* this.lastRequestTime
  rlPc,            \* per caller: "idle" | "sleeping"
  rlWakeAt,        \* per caller: earliest time the timer of sleep() fires
  grants,          \* time of every grant (return of acquire), in order
  \* ---- runner.js main() ----
  config,          \* parseArgs() result
  pc,              \* position of main()
  idx,             \* position of the current for..of loop (1-based)
  runId,           \* let runId
  runStatus,       \* runs.status of this run in the database
  addresses,       \* let addresses
  phase1Results,   \* const phase1Results
  phase1PassList,  \* const phase1PassList
  metricsResults,  \* const metricsResults
  scoredAccounts,  \* const scoredAccounts
  selected,        \* selectionResult.selected
  processedAccounts, \* const processedAccounts
  errors,          \* const errors
  upserted,        \* addresses whose upsertAccount transaction committed
  recorded,        \* accounts written by recordSelectedAccounts
  thrown,          \* the exception caught by the outer catch, if any
  phase1Calls,     \* every fetchBasic90dMetrics call: <<address, outcome>>
  phase2Calls,     \* every enrichWithActivity call
  storeCalls,      \* every upsertAccount/createMetricsSnapshot pair
  completeRunCalls,\* every storage.completeRun call
  failRunCalls,    \* every storage.failRun call
  \* ---- PolymarketCollector.fetchAccountMetrics (one call) ----
  famPc,           \* "init" | "waiting" | "resolved"
  fetchState,      \* per source: notStarted | throttle | request | fulfilled | rejected
  fetchValue,      \* per source: the collection a fulfilled fetch returned
  famMetrics,      \* the metrics record the call resolves with
  \* ---- PolymarketCollector._fetchAllActivity (one call) ----
  faCfg,           \* maxActivityPages, minTradesForStop, minVolumeForStop, afterTimestamp
  faPc,            \* "init" | "acquire" | "request" | "done" | "threw"
  before,          \* the before cursor: None or Some(timestamp)
  iteration,
  totalVolume,
  totalTrades,
  allActivity,     \* records accumulated so far
  faRequests,      \* every page request issued, with its params
  faPages,         \* every page received, in order (None is a null body)
  faResult,        \* the filtered records the call resolves with
  \* ---- PolymarketCollector.discoverTradersFromTrades (one call) ----
  numTrades,       \* the argument
  dtPc,            \* "init" | "request" | "done" | "threw"
  traders,         \* the Set of wallets
  cursor,          \* "" or the last next cursor
  fetched,
  dtRequests,      \* every fetchTrades call, with its limit and cursor
  dtBodies,        \* every response body received, in order
  dtResult,        \* the set the call resolves with (None before)
  \* ---- AccountSelector (one selector, one select call) ----
  criteria,        \* the selector's thresholds, topN and use90dMetrics
  selInput,        \* the argument of select
  selection,       \* None, or Some of what select returned
  \* ---- calculateMetrics followed by scoreBatch ----
  mxPositions,     \* the open positions given
  mxClosed,        \* the closed positions given
  mxActivity,      \* the activity given
  mxMetrics,       \* None, or Some of the record calculateMetrics returned
  mxScored,        \* None, or Some of what scoreBatch returned
  \* ---- AccountScorer.score on its own (one call) ----
  scMetrics,       \* argument metrics
  scScored,        \* None, or Some(the ScoredAccount returned)
  \* ---- AccountScorer.normalizeVolume on its own (two calls) ----
  nvInput,         \* the two volumes given, each may be missing
  nvResult,        \* None, or Some(the two values returned)
  \* ---- executeWithRetry invocations running together on one RetryHandler ----
  ccMaxRetries,    \* this.maxRetries of the shared handler
  ccBaseDelayMs,   \* this.baseDelayMs of the shared handler
  ccPc,            \* per invocation: call | sleeping | returned | thrown
  ccAttempt,       \* per invocation: its loop variable attempt
  ccFailures,      \* per invocation: status of each failed call of fn
  ccWaits,         \* per invocation: the arguments of its this.sleep(delay), in order
  \* ---- one fetch method: acquire, then executeWithRetry, for one request or for each page ----
  lfMaxRetries,    \* this.retryHandler.maxRetries
  lfPages,         \* logical fetches the method may make (1, or maxActivityPages)
  lfPc,            \* acquire | call | sleeping | returned | thrown
  lfAttempt,       \* loop variable attempt of the current executeWithRetry
  lfWrites,        \* number of assignments to the limiter's lastRequestTime
  lfHttp,          \* per logical fetch started: number of axios.get calls made
  \* ---- AccountSelector used repeatedly: select and updateCriteria calls ----
  ucBefore,        \* the criteria before the last updateCriteria (at first: as constructed)
  ucArg,           \* argument of the last updateCriteria (at first: no property)
  ucPrev,          \* result of the select before the last one, None after an update
  ucCount          \* number of updateCriteria calls so far

rhVars == <<rhMaxRetries, rhBaseDelayMs, rhPc, rhAttempt, rhLastError,
            rhCalls, rhWaits, rhResult>>
rlVars == <<rlLimit, rlWindowMs, now, lastRequestTime, rlPc, rlWakeAt, grants>>
mainVars == <<config, pc, idx, runId, runStatus, addresses, phase1Results,
              phase1PassList, metricsResults, scoredAccounts, selected,
              processedAccounts, errors, upserted, recorded, thrown,
              phase1Calls, phase2Calls, storeCalls, completeRunCalls, failRunCalls>>
famVars == <<famPc, fetchState, fetchValue, famMetrics>>
faVars == <<faCfg, faPc, before, iteration, totalVolume, totalTrades,
            allActivity, faRequests, faPages, faResult>>
dtVars == <<numTrades, dtPc, traders, cursor, fetched, dtRequests, dtBodies,
            dtResult>>
selVars == <<criteria, selInput, selection>>
mxVars == <<mxPositions, mxClosed, mxActivity, mxMetrics, mxScored>>
scVars == <<scMetrics, scScored>>
nvVars == <<nvInput, nvResult>>
ccVars == <<ccMaxRetries, ccBaseDelayMs, ccPc, ccAttempt, ccFailures, ccWaits>>
lfVars == <<lfMaxRetries, lfPages, lfPc, lfAttempt, lfWrites, lfHttp>>
ucVars == <<ucBefore, ucArg, ucPrev, ucCount>>
vars == <<rhVars, rlVars, mainVars, famVars, faVars, dtVars, selVars, mxVars, scVars, nvVars, ccVars, lfVars, ucVars>>
notSel == <<rhVars, rlVars, mainVars, famVars, faVars, dtVars, mxVars, scVars, nvVars, ccVars, lfVars, ucVars>>
notMx == <<rhVars, rlVars, mainVars, famVars, faVars, dtVars, selVars, scVars, nvVars, ccVars, lfVars, ucVars>>
notUc == <<rhVars, rlVars, mainVars, famVars, faVars, dtVars, selVars, mxVars, scVars, nvVars, ccVars, lfVars>>
notLf == <<rhVars, rlVars, mainVars, famVars, faVars, dtVars, selVars, mxVars, scVars, nvVars, ccVars, ucVars>>
notCc == <<rhVars, rlVars, mainVars, famVars, faVars, dtVars, selVars, mxVars, scVars, nvVars, lfVars, ucVars>>
notNv == <<rhVars, rlVars, mainVars, famVars, faVars, dtVars, selVars, mxVars, scVars, ccVars, lfVars, ucVars>>
notSc == <<rhVars, rlVars, mainVars, famVars, faVars, dtVars, selVars, mxVars, nvVars, ccVars, lfVars, ucVars>>
\* the variables a sub-model leaves alone
notRh == <<rlVars, mainVars, famVars, faVars, dtVars, selVars, mxVars, scVars, nvVars, ccVars, lfVars, ucVars>>
notRl == <<rhVars, mainVars, famVars, faVars, dtVars, selVars, mxVars, scVars, nvVars, ccVars, lfVars, ucVars>>
notMain == <<rhVars, rlVars, famVars, faVars, dtVars, selVars, mxVars, scVars, nvVars, ccVars, lfVars, ucVars>>
notFam == <<rhVars, rlVars, mainVars, faVars, dtVars, selVars, mxVars, scVars, nvVars, ccVars, lfVars, ucVars>>
notFa == <<rhVars, rlVars, mainVars, famVars, dtVars, selVars, mxVars, scVars, nvVars, ccVars, lfVars, ucVars>>
notDt == <<rhVars, rlVars, mainVars, famVars, faVars, selVars, mxVars, scVars, nvVars, ccVars, lfVars, ucVars>>

Null == "null"

(***************************************************************************)
(* RetryHandler                                                            *)
(***************************************************************************)
MaxRetriesBound == 3
BaseDelays == {1, 500, 1000}
NoStatus == 0      \* error.response?.status is undefined
Statuses == {NoStatus, 304, 400, 404, 429, 499, 500, 503}
Values == {"v1", "v2"}

RECURSIVE Pow2(_)
Pow2(n) == IF n = 0 THEN 1 ELSE 2 * Pow2(n - 1)

\* variants of the classification, used to test the sensitivity of the properties
IsRetryable_Always(status) == TRUE
IsRetryable_No429(status) == status = NoStatus \/ status >= 500

\* collector.js:72  !status || status === 429 || status >= 500
IsRetryable(status) == status = NoStatus \/ status = 429 \/ status >= 500

IsLastAttempt_OffByOne(attempt, maxRetries) == attempt = maxRetries + 1

\* collector.js:74  attempt === this.maxRetries
IsLastAttempt(attempt, maxRetries) == attempt = maxRetries

BackoffDelay_Linear(baseDelayMs, attempt) == baseDelayMs * (attempt + 1)

\* collector.js:80  this.baseDelayMs * Math.pow(2, attempt)
BackoffDelay(baseDelayMs, attempt) == baseDelayMs * Pow2(attempt)

\* the error thrown by the attempt-th call of fn: its status and its identity
MkError(status, attempt) == [ok |-> FALSE, status |-> status, id |-> attempt]
MkValue(v) == [ok |-> TRUE, value |-> v]

RetryInit ==
  /\ rhMaxRetries \in 0..MaxRetriesBound
  /\ rhBaseDelayMs \in BaseDelays
  /\ rhPc = "call"
  /\ rhAttempt = 0
  /\ rhLastError = Null
  /\ rhCalls = <<>>
  /\ rhWaits = <<>>
  /\ rhResult = Null

\* collector.js:66  return await fn();   fn resolves
AttemptSucceeds ==
  /\ rhPc = "call"
  /\ \E v \in Values :
       /\ rhCalls' = Append(rhCalls, MkValue(v))
       /\ rhResult' = MkValue(v)
  /\ rhPc' = "returned"
  /\ UNCHANGED <<rhMaxRetries, rhBaseDelayMs, rhAttempt, rhLastError, rhWaits>>
  /\ UNCHANGED notRh

\* collector.js:67-83  fn rejects: classify, rethrow or back off
AttemptFails ==
  /\ rhPc = "call"
  /\ \E status \in Statuses :
       LET error == MkError(status, rhAttempt) IN
       /\ rhCalls' = Append(rhCalls, error)
       /\ rhLastError' = error
       /\ IF ~IsRetryable(status) \/ IsLastAttempt(rhAttempt, rhMaxRetries)
          THEN /\ rhPc' = "thrown"
               /\ rhResult' = error
               /\ UNCHANGED rhWaits
          ELSE /\ rhPc' = "sleeping"
               /\ rhWaits' = Append(rhWaits, BackoffDelay(rhBaseDelayMs, rhAttempt))
               /\ UNCHANGED rhResult
  /\ UNCHANGED <<rhMaxRetries, rhBaseDelayMs, rhAttempt>>
  /\ UNCHANGED notRh

\* collector.js:82,64,86  the sleep ends; attempt++; loop test; throw lastError
BackoffElapsed ==
  /\ rhPc = "sleeping"
  /\ rhAttempt' = rhAttempt + 1
  /\ IF rhAttempt + 1 <= rhMaxRetries
     THEN rhPc' = "call" /\ UNCHANGED rhResult
     ELSE rhPc' = "thrown" /\ rhResult' = rhLastError
  /\ UNCHANGED <<rhMaxRetries, rhBaseDelayMs, rhLastError, rhCalls, rhWaits>>
  /\ UNCHANGED notRh

RetryNext ==
  \/ AttemptSucceeds
  \/ AttemptFails
  \/ BackoffElapsed

(***************************************************************************)
(* RateLimiter                                                             *)
(***************************************************************************)
Callers == {"A", "B"}
MaxTime == 6          \* the clock is observed for MaxTime ms after StartTime
MaxGrants == 4
\* Date.now() at construction is far beyond any window: the first acquire
\* never waits (lastRequestTime starts at 0, collector.js:33).
StartTime == 10
LimiterConfigs == {<<1, 2>>, <<2, 5>>, <<1, 3>>}   \* <<limit, windowMs>>

LimiterInit ==
  /\ \E cfg \in LimiterConfigs : rlLimit = cfg[1] /\ rlWindowMs = cfg[2]
  /\ now = StartTime
  /\ lastRequestTime = 0
  /\ rlPc = [c \in Callers |-> "idle"]
  /\ rlWakeAt = [c \in Callers |-> 0]
  /\ grants = <<>>

\* collector.js:41  timeSinceLastRequest < minInterval, with
\* minInterval = windowMs / limit kept exact by scaling both sides by limit
MustWait(timeSinceLastRequest, limit, windowMs) ==
  timeSinceLastRequest * limit < windowMs

\* collector.js:42  waitTime = minInterval - timeSinceLastRequest (times limit)
WaitTimeScaled(timeSinceLastRequest, limit, windowMs) ==
  windowMs - timeSinceLastRequest * limit

\* collector.js:49-51  sleep(ms) is setTimeout(resolve, ms): a non-integer
\* delay is truncated to an integer and a delay below 1 becomes 1 (Node.js
\* timers); the argument is waitTime times limit
TimerDelay(waitScaled, limit) ==
  IF waitScaled \div limit < 1 THEN 1 ELSE waitScaled \div limit

\* collector.js:36-47  acquire() up to its first suspension point
AcquireStart(c) ==
  /\ rlPc[c] = "idle"
  /\ Len(grants) < MaxGrants
  /\ LET timeSinceLastRequest == now - lastRequestTime IN
     IF MustWait(timeSinceLastRequest, rlLimit, rlWindowMs)
     THEN /\ rlPc' = [rlPc EXCEPT ![c] = "sleeping"]
          /\ rlWakeAt' = [rlWakeAt EXCEPT ![c] =
                 now + TimerDelay(WaitTimeScaled(timeSinceLastRequest, rlLimit, rlWindowMs),
                                  rlLimit)]
          /\ UNCHANGED <<lastRequestTime, grants>>
     ELSE /\ lastRequestTime' = now
          /\ grants' = Append(grants, [caller |-> c, time |-> now])
          /\ UNCHANGED <<rlPc, rlWakeAt>>
  /\ UNCHANGED <<rlLimit, rlWindowMs, now>>
  /\ UNCHANGED notRl

\* collector.js:36  acquire() called while no other call is in progress
AcquireStartAlone(c) ==
  /\ \A other \in Callers : rlPc[other] = "idle"
  /\ AcquireStart(c)

\* collector.js:43,46  the timer of sleep(waitTime) fires; lastRequestTime = Date.now()
AcquireResume(c) ==
  /\ rlPc[c] = "sleeping"
  /\ now >= rlWakeAt[c]
  /\ lastRequestTime' = now
  /\ grants' = Append(grants, [caller |-> c, time |-> now])
  /\ rlPc' = [rlPc EXCEPT ![c] = "idle"]
  /\ UNCHANGED <<rlLimit, rlWindowMs, now, rlWakeAt>>
  /\ UNCHANGED notRl

\* the clock advances by one millisecond
Tick ==
  /\ now < StartTime + MaxTime
  /\ now' = now + 1
  /\ UNCHANGED <<rlLimit, rlWindowMs, lastRequestTime, rlPc, rlWakeAt, grants>>
  /\ UNCHANGED notRl

LimiterNext ==
  \/ \E c \in Callers : AcquireStart(c)
  \/ \E c \in Callers : AcquireResume(c)
  \/ Tick

\* callers that never overlap: each acquire() returns before the next starts
LimiterSeqNext ==
  \/ \E c \in Callers : AcquireStartAlone(c)
  \/ \E c \in Callers : AcquireResume(c)
  \/ Tick

(***************************************************************************)
(* runner.js main(): the sync pipeline                                     *)
(*                                                                         *)
(* Units: win rates are in per cent, confidence scores in hundredths,      *)
(* score weights in per cent and composite scores in 1/10000.  A nullable  *)
(* number is <<>> (null/undefined) or <<v>>.                               *)
(***************************************************************************)
MaxAddresses == 2
None == <<>>
Some(v) == <<v>>
\* a ?? d
Coalesce(x, d) == IF x = None THEN d ELSE x[1]
\* x ?? y, both nullable
OrElse(x, y) == IF x # None THEN x ELSE y

Min(a, b) == IF a <= b THEN a ELSE b
Max(a, b) == IF a >= b THEN a ELSE b
Range(f) == {f[i] : i \in DOMAIN f}
Iota(n) == [i \in 1..n |-> i]

RECURSIVE SumSeq(_)
\* numbers.reduce((sum, x) => sum + x, 0)
SumSeq(numbers) == IF numbers = <<>> THEN 0 ELSE Head(numbers) + SumSeq(Tail(numbers))

\* parseArgs(): the defaults of runner.js:63-74 and a permissive command line
Configs ==
  { [minTrades |-> 50, minVolumeUsd |-> 5000, minWinRate |-> 58, minConfidence |-> 10,
     minPnl |-> 0, topN |-> 100, discoverTraders |-> 100],
    [minTrades |-> 0, minVolumeUsd |-> 0, minWinRate |-> 0, minConfidence |-> 0,
     minPnl |-> 0, topN |-> 1, discoverTraders |-> 0] }

\* what fetchBasic90dMetrics can resolve with for an address
Phase1WinRates == {None, Some(50), Some(58)}
Phase1Pnls == {-5, 0}
BasicMetrics(address, winRate, pnl) ==
  [address |-> address, strictWinRate |-> winRate, proxyWinRate |-> None,
   realizedPnl |-> pnl, totalTrades |-> None, totalVolumeUsd |-> None,
   confidenceScore |-> None, closedPositionsCount |-> None,
   winCount |-> None, lossCount |-> None, positionsCount |-> None]

\* what enrichWithActivity can add to the Phase 1 metrics
EnrichedVariants ==
  { [totalTrades |-> 60, totalVolumeUsd |-> 1000000, closedPositionsCount |-> 20,
     winCount |-> 12, lossCount |-> 8, positionsCount |-> 40,
     proxyWinRate |-> Some(70)],
    [totalTrades |-> 60, totalVolumeUsd |-> 1000000, closedPositionsCount |-> 0,
     winCount |-> 0, lossCount |-> 0, positionsCount |-> 4,
     proxyWinRate |-> Some(50)],
    [totalTrades |-> 0, totalVolumeUsd |-> 0, closedPositionsCount |-> 0,
     winCount |-> 0, lossCount |-> 0, positionsCount |-> 0,
     proxyWinRate |-> None] }
EnrichedMetrics(m, v) ==
  [m EXCEPT !.totalTrades = Some(v.totalTrades),
            !.totalVolumeUsd = Some(v.totalVolumeUsd),
            !.closedPositionsCount = Some(v.closedPositionsCount),
            !.winCount = Some(v.winCount),
            !.lossCount = Some(v.lossCount),
            !.positionsCount = Some(v.positionsCount),
            !.proxyWinRate = v.proxyWinRate]

Phase1Passes_NoPnl(m, cfg) == Coalesce(m.strictWinRate, 0) >= cfg.minWinRate

\* runner.js:223-229  winRate >= minWinRate && realizedPnl >= minPnl
Phase1Passes(m, cfg) ==
  LET winRate == Coalesce(m.strictWinRate, 0) IN
  winRate >= cfg.minWinRate /\ m.realizedPnl >= cfg.minPnl

\* runner.js:244-246  confidenceScore = totalTrades / _closedPositionsCount, or 0
WithConfidence(enrichedMetrics) ==
  LET closed == enrichedMetrics.closedPositionsCount[1]
      trades == enrichedMetrics.totalTrades[1] IN
  [enrichedMetrics EXCEPT !.confidenceScore =
      Some(IF closed > 0 THEN (trades * 100) \div closed ELSE 0)]

ErrorEntry(address, type, message) ==
  [address |-> address, type |-> type, message |-> message]

Phase2Fallback_Drop(results, item) == results

\* runner.js:252  metricsResults.push(item.metrics)
Phase2Fallback(results, item) == Append(results, item.metrics)

CatchStorage_Silent(errs, account, message) == errs

\* runner.js:278-282  errors.push({address, type: 'storage_failure', message})
CatchStorage(errs, account, message) ==
  Append(errs, ErrorEntry(account.address, "storage_failure", message))

\* scorer weights passed by runner.js:159-163
WinRateWeight == 50
VolumeWeight == 30
ConfidenceWeight == 20

\* Math.log10(volume + 1) in 1/10000, tabulated at the volumes the model uses
Log10Plus1(volume) ==
  CASE volume = 1 -> 3010
    [] volume = 500 -> 26998
    [] volume = 999 -> 30000
    [] volume = 1000 -> 30004
    [] volume = 5000 -> 36991
    [] volume = 10000 -> 40000
    [] volume = 50000 -> 46990
    [] volume = 999999 -> 60000
    [] volume = 1000000 -> 60000
    [] volume = 2000000 -> 63010
    [] volume = 10000000 -> 70000

\* const maxLogVolume = Math.log10(1000000 + 1)
MaxLogVolume == Log10Plus1(1000000)

NormalizeVolume_Unclamped(volume) ==
  IF volume <= 0 THEN 0
  ELSE (Log10Plus1(volume) * 10000 + MaxLogVolume \div 2) \div MaxLogVolume

\* AccountScorer.normalizeVolume, in 1/10000 (to the nearest):
\* 0 for volume <= 0, else Math.min(logVolume / maxLogVolume, 1)
NormalizeVolume(volume) ==
  IF volume <= 0 THEN 0
  ELSE Min((Log10Plus1(volume) * 10000 + MaxLogVolume \div 2) \div MaxLogVolume,
           10000)

\* normalizeVolume of a volume that may be missing: !volume returns 0
NormalizeVolumeOpt(volume) ==
  IF volume = None THEN 0 ELSE NormalizeVolume(volume[1])

\* x >= t in JavaScript for a nullable x and a positive t: false for null
AtLeast(x, t) == x # None /\ x[1] >= t

\* AccountScorer.determineReasonTags(metrics), in push order; it reads the
\* properties of the metrics given to score, not the values score reports
determineReasonTags(metrics) ==
  LET Opt(name) == IF name \in DOMAIN metrics THEN metrics[name] ELSE None
      Tag(c, t) == IF c THEN <<t>> ELSE <<>>
      Pair(hi, hiTag, lo, loTag) ==
        IF hi THEN <<hiTag>> ELSE IF lo THEN <<loTag>> ELSE <<>>
  IN Pair(AtLeast(metrics.strictWinRate, 60), "high_winrate",
          AtLeast(metrics.strictWinRate, 50), "medium_winrate")
     \o Pair(AtLeast(metrics.totalVolumeUsd, 10000), "high_volume",
             AtLeast(metrics.totalVolumeUsd, 1000), "medium_volume")
     \o Pair(AtLeast(metrics.confidenceScore, 50), "high_confidence",
             AtLeast(metrics.confidenceScore, 30), "medium_confidence")
     \o Pair(AtLeast(metrics.totalTrades, 100), "active_trader",
             AtLeast(metrics.totalTrades, 20), "regular_trader")
     \o Pair(metrics.realizedPnl > 0, "profitable",
             metrics.realizedPnl < 0, "loss_making")
     \o Tag(AtLeast(metrics.strictWinRate, 55)
              /\ AtLeast(Opt("closedPositions"), 10), "consistent_winner")

Round4_Floor(unrounded) == unrounded \div 100

\* Math.round(compositeScore * 10000) / 10000: from 1/1000000 to the nearest
\* 1/10000, a half rounded up
Round4(unrounded) == (unrounded + 50) \div 100

\* AccountScorer.score (001_init.sql:272-359).  A property the metrics record
\* lacks reads as undefined (None); the 90-day fields are kept nullable.
\* The contributions of scoreBreakdown are in 1/1000000.
score(metrics) ==
  LET Opt(name) == IF name \in DOMAIN metrics THEN metrics[name] ELSE None
      winRate90d == Opt("winRate90d")
      volume90d == Opt("volume90d")
      trades90d == Opt("trades90d")
      realizedPnl90d == Opt("realizedPnl90d")
      effectiveWinRate ==
        Coalesce(OrElse(winRate90d,
                        OrElse(metrics.strictWinRate, metrics.proxyWinRate)), 0)
      effectiveVolume == Coalesce(OrElse(volume90d, metrics.totalVolumeUsd), 0)
      effectiveTrades == Coalesce(OrElse(trades90d, metrics.totalTrades), 0)
      effectivePnl == Coalesce(realizedPnl90d, metrics.realizedPnl)
      effectiveWinCount == Coalesce(OrElse(Opt("winCount90d"), Opt("winCount")), 0)
      effectiveLossCount == Coalesce(OrElse(Opt("lossCount90d"), Opt("lossCount")), 0)
      effectiveClosedPositions ==
        Coalesce(OrElse(Opt("closedPositions90d"), Opt("closedPositions")), 0)
      confidence == Coalesce(metrics.confidenceScore, 0)
      normalizedVolume == NormalizeVolume(effectiveVolume)
      winRateContribution == effectiveWinRate * WinRateWeight * 100
      volumeContribution == normalizedVolume * VolumeWeight
      confidenceContribution == confidence * ConfidenceWeight * 100
  IN [address |-> metrics.address,
      winRate90d |-> winRate90d,
      volume90d |-> Some(Coalesce(volume90d, 0)),
      trades90d |-> Some(Coalesce(trades90d, 0)),
      realizedPnl90d |-> Some(Coalesce(realizedPnl90d, 0)),
      strictWinRate |-> metrics.strictWinRate,
      proxyWinRate |-> metrics.proxyWinRate,
      totalTrades |-> effectiveTrades,
      totalVolumeUsd |-> effectiveVolume,
      realizedPnl |-> effectivePnl,
      confidenceScore |-> confidence,
      winCount |-> effectiveWinCount,
      lossCount |-> effectiveLossCount,
      closedPositions |-> effectiveClosedPositions,
      compositeScore |-> Round4(winRateContribution + volumeContribution
                                + confidenceContribution),
      reasonTags |-> determineReasonTags(metrics),
      scoreBreakdown |-> [winRateContribution |-> winRateContribution,
                          volumeContribution |-> volumeContribution,
                          confidenceContribution |-> confidenceContribution]]

\* AccountScorer.scoreBatch
scoreBatch(metricsArray) == [i \in 1..Len(metricsArray) |-> score(metricsArray[i])]

\* AccountSelector.select, the filter predicate (use90dMetrics = false)

\* selector.js:28  this.use90dMetrics = options.use90dMetrics ?? false
Use90dMetrics(cfg) ==
  IF "use90dMetrics" \in DOMAIN cfg THEN cfg.use90dMetrics ELSE FALSE

PassesWinRate_NullAsZero(winRate, minWinRate) == Coalesce(winRate, 0) >= minWinRate

\* selector.js:57  winRate !== null && winRate >= this.minWinRate
PassesWinRate(winRate, minWinRate) == winRate # None /\ winRate[1] >= minWinRate

PassesPnl_Always(pnl, minPnl) == TRUE

\* selector.js:60  pnl !== undefined && pnl >= this.minPnl
PassesPnl(pnl, minPnl) == pnl # None /\ pnl[1] >= minPnl

EffectiveWinRate_StrictOrZero(account, cfg) ==
  Some(Coalesce(account.strictWinRate, 0))

\* selector.js:40-42  the win rate the filter compares with minWinRate
EffectiveWinRate(account, cfg) ==
  IF Use90dMetrics(cfg)
  THEN OrElse(account.winRate90d, OrElse(account.strictWinRate, account.proxyWinRate))
  ELSE OrElse(account.strictWinRate, account.proxyWinRate)

\* selector.js:38-69  the filter callback
PassesFilters(account, cfg) ==
  LET winRate == EffectiveWinRate(account, cfg)
      trades == IF Use90dMetrics(cfg)
                THEN Coalesce(account.trades90d, account.totalTrades)
                ELSE account.totalTrades
      volume == IF Use90dMetrics(cfg)
                THEN Coalesce(account.volume90d, account.totalVolumeUsd)
                ELSE account.totalVolumeUsd
      pnl == IF Use90dMetrics(cfg)
             THEN Some(Coalesce(account.realizedPnl90d, account.realizedPnl))
             ELSE Some(account.realizedPnl)
  IN /\ trades >= cfg.minTrades
     /\ volume >= cfg.minVolumeUsd
     /\ PassesWinRate(winRate, cfg.minWinRate)
     /\ account.confidenceScore >= cfg.minConfidence
     /\ PassesPnl(pnl, cfg.minPnl)

\* Array.prototype.sort with (a, b) => b.compositeScore - a.compositeScore:
\* a stable sort, highest score first
RECURSIVE InsertByScore_TiesReversed(_, _)
InsertByScore_TiesReversed(sorted, x) ==
  IF sorted = <<>> THEN <<x>>
  ELSE IF sorted[Len(sorted)].compositeScore > x.compositeScore
       THEN Append(sorted, x)
       ELSE Append(InsertByScore_TiesReversed(SubSeq(sorted, 1, Len(sorted) - 1), x),
                   sorted[Len(sorted)])

RECURSIVE InsertByScore(_, _)
InsertByScore(sorted, x) ==
  IF sorted = <<>> THEN <<x>>
  ELSE IF sorted[Len(sorted)].compositeScore >= x.compositeScore
       THEN Append(sorted, x)
       ELSE Append(InsertByScore(SubSeq(sorted, 1, Len(sorted) - 1), x), sorted[Len(sorted)])

SortByScore_InputOrder(accounts) == accounts

RECURSIVE SortByScore(_)
SortByScore(accounts) ==
  IF accounts = <<>> THEN <<>>
  ELSE InsertByScore(SortByScore(SubSeq(accounts, 1, Len(accounts) - 1)),
                     accounts[Len(accounts)])

SliceTop_All(sorted, topN) == sorted

\* selector.js:75  sorted.slice(0, this.topN), topN a non-negative integer
SliceTop(sorted, topN) == SubSeq(sorted, 1, Min(topN, Len(sorted)))

\* AccountSelector.select(...).selected
select(accounts, cfg) ==
  LET filtered == SelectSeq(accounts, LAMBDA a : PassesFilters(a, cfg))
      sorted == SortByScore(filtered)
  IN SliceTop(sorted, cfg.topN)

\* selector.js:110-136  AccountSelector.generateSummary; a mean is the exact
\* fraction <<sum, count>>, and a property the code does not set is not a field
generateSummary(accounts) ==
  IF Len(accounts) = 0
  THEN [count |-> 0, avgWinRate |-> 0, avgVolume |-> 0, avgScore |-> 0,
        totalVolume |-> 0, profitableCount |-> 0]
  ELSE LET n == Len(accounts)
           winRates == [i \in 1..n |->
                          Coalesce(accounts[i].strictWinRate,
                                   Coalesce(accounts[i].proxyWinRate, 0))]
           volumes == [i \in 1..n |-> accounts[i].totalVolumeUsd]
           scores == [i \in 1..n |-> accounts[i].compositeScore]
           profitable == Cardinality({i \in 1..n : accounts[i].realizedPnl > 0})
       IN [count |-> n,
           avgWinRate |-> <<SumSeq(winRates), n>>,
           avgVolume |-> <<SumSeq(volumes), n>>,
           avgScore |-> <<SumSeq(scores), n>>,
           totalVolume |-> SumSeq(volumes),
           profitableCount |-> profitable,
           profitablePercent |-> <<profitable, n>>]

\* selector.js:87-90  AccountSelector.select(...)._stats
selectStats(accounts, cfg) ==
  [totalInput |-> Len(accounts),
   passedFilters |-> Len(SelectSeq(accounts, LAMBDA a : PassesFilters(a, cfg))),
   selectedCount |-> Len(select(accounts, cfg))]

RunStats_NoErrors(processed, sel, errs) ==
  [accounts_processed |-> Len(processed), accounts_selected |-> Len(sel), accounts_failed |-> 0]

\* runner.js:293-300  the stats handed to completeRun
RunStats(processed, sel, errs) ==
  [accounts_processed |-> Len(processed),
   accounts_selected |-> Len(sel),
   accounts_failed |-> Len(errs)]

ShouldFailRun_Never(id) == FALSE

\* runner.js:325  if (runId)
ShouldFailRun(id) == id # None

MainInit ==
  /\ config \in Configs
  /\ pc = "createRun"
  /\ idx = 1
  /\ runId = None
  /\ runStatus = "none"
  /\ addresses = <<>>
  /\ phase1Results = <<>>
  /\ phase1PassList = <<>>
  /\ metricsResults = <<>>
  /\ scoredAccounts = <<>>
  /\ selected = <<>>
  /\ processedAccounts = <<>>
  /\ errors = <<>>
  /\ upserted = {}
  /\ recorded = <<>>
  /\ thrown = None
  /\ phase1Calls = <<>>
  /\ phase2Calls = <<>>
  /\ storeCalls = <<>>
  /\ completeRunCalls = <<>>
  /\ failRunCalls = <<>>

\* runner.js:323-328  an exception of step `step` reaches the outer catch
Escape(step) ==
  /\ thrown' = Some([step |-> step, message |-> step \o " failed"])
  /\ pc' = IF ShouldFailRun(runId) THEN "failRun" ELSE "exited"

\* runner.js:184  runId = await storage.createRun(config)
CreateRun ==
  /\ pc = "createRun"
  /\ \/ /\ runId' = Some("run-1")
        /\ runStatus' = "running"
        /\ pc' = "loadAddresses"
        /\ UNCHANGED thrown
     \/ /\ Escape("createRun")
        /\ UNCHANGED <<runId, runStatus>>
  /\ UNCHANGED <<config, idx, addresses, phase1Results, phase1PassList, metricsResults,
                 scoredAccounts, selected, processedAccounts, errors, upserted, recorded,
                 phase1Calls, phase2Calls, storeCalls, completeRunCalls, failRunCalls>>
  /\ UNCHANGED notMain

\* runner.js:188-192  addresses = await loadAddresses(storage, config)
LoadAddresses ==
  /\ pc = "loadAddresses"
  /\ \/ \E k \in 0..MaxAddresses :
          /\ addresses' = Iota(k)
          /\ pc' = IF k = 0 \/ config.discoverTraders > 0 THEN "discover" ELSE "phase1"
          /\ UNCHANGED thrown
     \/ /\ Escape("loadAddresses")
        /\ UNCHANGED addresses
  /\ UNCHANGED <<config, idx, runId, runStatus, phase1Results, phase1PassList, metricsResults,
                 scoredAccounts, selected, processedAccounts, errors, upserted, recorded,
                 phase1Calls, phase2Calls, storeCalls, completeRunCalls, failRunCalls>>
  /\ UNCHANGED notMain

\* runner.js:194-195  discoverTradersFromTrades, merged through a Set
Discover ==
  /\ pc = "discover"
  /\ \/ \E m \in 0..MaxAddresses :
          /\ addresses' = Iota(Max(Len(addresses), m))
          /\ pc' = "phase1"
          /\ UNCHANGED thrown
     \/ /\ Escape("discover")
        /\ UNCHANGED addresses
  /\ UNCHANGED <<config, idx, runId, runStatus, phase1Results, phase1PassList, metricsResults,
                 scoredAccounts, selected, processedAccounts, errors, upserted, recorded,
                 phase1Calls, phase2Calls, storeCalls, completeRunCalls, failRunCalls>>
  /\ UNCHANGED notMain

\* runner.js:213-220  one iteration of the Phase 1 loop
Phase1Fetch ==
  /\ pc = "phase1"
  /\ idx <= Len(addresses)
  /\ LET address == addresses[idx] IN
     \/ \E w \in Phase1WinRates, p \in Phase1Pnls :
          /\ phase1Calls' = Append(phase1Calls, <<address, "ok">>)
          /\ phase1Results' = Append(phase1Results,
                 [address |-> address, metrics |-> BasicMetrics(address, w, p)])
          /\ UNCHANGED errors
     \/ /\ phase1Calls' = Append(phase1Calls, <<address, "throw">>)
        /\ errors' = Append(errors, ErrorEntry(address, "phase1_failure", "phase1 failed"))
        /\ UNCHANGED phase1Results
  /\ idx' = idx + 1
  /\ UNCHANGED <<config, pc, runId, runStatus, addresses, phase1PassList, metricsResults,
                 scoredAccounts, selected, processedAccounts, upserted, recorded, thrown,
                 phase2Calls, storeCalls, completeRunCalls, failRunCalls>>
  /\ UNCHANGED notMain

\* runner.js:223-229  the Phase 1 filter, after the loop
Phase1Filter ==
  /\ pc = "phase1"
  /\ idx > Len(addresses)
  /\ phase1PassList' = SelectSeq(phase1Results, LAMBDA r : Phase1Passes(r.metrics, config))
  /\ pc' = "phase2"
  /\ idx' = 1
  /\ UNCHANGED <<config, runId, runStatus, addresses, phase1Results, metricsResults,
                 scoredAccounts, selected, processedAccounts, errors, upserted, recorded,
                 thrown, phase1Calls, phase2Calls, storeCalls, completeRunCalls, failRunCalls>>
  /\ UNCHANGED notMain

\* runner.js:236-255  one iteration of the Phase 2 loop
Phase2Enrich ==
  /\ pc = "phase2"
  /\ idx <= Len(phase1PassList)
  /\ LET item == phase1PassList[idx] IN
     \/ \E v \in EnrichedVariants :
          /\ phase2Calls' = Append(phase2Calls, <<item.address, "ok">>)
          /\ metricsResults' = Append(metricsResults,
                                      WithConfidence(EnrichedMetrics(item.metrics, v)))
          /\ UNCHANGED errors
     \/ /\ phase2Calls' = Append(phase2Calls, <<item.address, "throw">>)
        /\ metricsResults' = Phase2Fallback(metricsResults, item)
        /\ errors' = Append(errors, ErrorEntry(item.address, "phase2_failure", "phase2 failed"))
  /\ idx' = idx + 1
  /\ UNCHANGED <<config, pc, runId, runStatus, addresses, phase1Results, phase1PassList,
                 scoredAccounts, selected, processedAccounts, upserted, recorded, thrown,
                 phase1Calls, storeCalls, completeRunCalls, failRunCalls>>
  /\ UNCHANGED notMain

\* runner.js:261-265  scoreBatch and select, after the Phase 2 loop
ScoreAndSelect ==
  /\ pc = "phase2"
  /\ idx > Len(phase1PassList)
  /\ scoredAccounts' = scoreBatch(metricsResults)
  /\ selected' = select(scoreBatch(metricsResults), config)
  /\ pc' = "store"
  /\ idx' = 1
  /\ UNCHANGED <<config, runId, runStatus, addresses, phase1Results, phase1PassList,
                 metricsResults, processedAccounts, errors, upserted, recorded, thrown,
                 phase1Calls, phase2Calls, storeCalls, completeRunCalls, failRunCalls>>
  /\ UNCHANGED notMain

\* runner.js:272-284  one iteration of the storage loop
StoreAccount ==
  /\ pc = "store"
  /\ idx <= Len(scoredAccounts)
  /\ LET account == scoredAccounts[idx] IN
     \/ /\ storeCalls' = Append(storeCalls, <<account.address, "ok">>)
        /\ upserted' = upserted \cup {account.address}
        /\ processedAccounts' = Append(processedAccounts, account.address)
        /\ UNCHANGED errors
     \/ /\ storeCalls' = Append(storeCalls, <<account.address, "upsert_throw">>)
        /\ errors' = CatchStorage(errors, account, "upsert failed")
        /\ UNCHANGED <<upserted, processedAccounts>>
     \/ /\ storeCalls' = Append(storeCalls, <<account.address, "snapshot_throw">>)
        /\ upserted' = upserted \cup {account.address}
        /\ errors' = CatchStorage(errors, account, "snapshot failed")
        /\ UNCHANGED processedAccounts
  /\ idx' = idx + 1
  /\ UNCHANGED <<config, pc, runId, runStatus, addresses, phase1Results, phase1PassList,
                 metricsResults, scoredAccounts, selected, recorded, thrown,
                 phase1Calls, phase2Calls, completeRunCalls, failRunCalls>>
  /\ UNCHANGED notMain

\* runner.js:287  if (selectionResult.selected.length > 0), after the storage loop
StoreDone ==
  /\ pc = "store"
  /\ idx > Len(scoredAccounts)
  /\ pc' = IF Len(selected) > 0 THEN "recordSelected" ELSE "completeRun"
  /\ UNCHANGED <<config, idx, runId, runStatus, addresses, phase1Results, phase1PassList,
                 metricsResults, scoredAccounts, selected, processedAccounts, errors,
                 upserted, recorded, thrown, phase1Calls, phase2Calls, storeCalls,
                 completeRunCalls, failRunCalls>>
  /\ UNCHANGED notMain

\* runner.js:288  await storage.recordSelectedAccounts(runId, selected)
RecordSelected ==
  /\ pc = "recordSelected"
  /\ \/ /\ recorded' = selected
        /\ pc' = "completeRun"
        /\ UNCHANGED thrown
     \/ /\ Escape("recordSelected")
        /\ UNCHANGED recorded
  /\ UNCHANGED <<config, idx, runId, runStatus, addresses, phase1Results, phase1PassList,
                 metricsResults, scoredAccounts, selected, processedAccounts, errors,
                 upserted, phase1Calls, phase2Calls, storeCalls, completeRunCalls,
                 failRunCalls>>
  /\ UNCHANGED notMain

\* runner.js:292-302  await storage.completeRun(runId, stats)
CompleteRun ==
  /\ pc = "completeRun"
  /\ completeRunCalls' = Append(completeRunCalls,
         [runId |-> runId, stats |-> RunStats(processedAccounts, selected, errors)])
  /\ \/ /\ runStatus' = "completed"
        /\ pc' = "close"
        /\ UNCHANGED thrown
     \/ /\ Escape("completeRun")
        /\ UNCHANGED runStatus
  /\ UNCHANGED <<config, idx, runId, addresses, phase1Results, phase1PassList,
                 metricsResults, scoredAccounts, selected, processedAccounts, errors,
                 upserted, recorded, phase1Calls, phase2Calls, storeCalls, failRunCalls>>
  /\ UNCHANGED notMain

\* runner.js:326-328  await storage.failRun(runId, error.message); process.exit(1)
FailRun ==
  /\ pc = "failRun"
  /\ failRunCalls' = Append(failRunCalls, [runId |-> runId, message |-> thrown[1].message])
  /\ \/ runStatus' = "failed" /\ pc' = "exited"
     \/ pc' = "crashed" /\ UNCHANGED runStatus
  /\ UNCHANGED <<config, idx, runId, addresses, phase1Results, phase1PassList,
                 metricsResults, scoredAccounts, selected, processedAccounts, errors,
                 upserted, recorded, thrown, phase1Calls, phase2Calls, storeCalls,
                 completeRunCalls>>
  /\ UNCHANGED notMain

\* runner.js:329-331  finally { await close() }
Close ==
  /\ pc = "close"
  /\ pc' = "done"
  /\ UNCHANGED <<config, idx, runId, runStatus, addresses, phase1Results, phase1PassList,
                 metricsResults, scoredAccounts, selected, processedAccounts, errors,
                 upserted, recorded, thrown, phase1Calls, phase2Calls, storeCalls,
                 completeRunCalls, failRunCalls>>
  /\ UNCHANGED notMain

MainNext ==
  \/ CreateRun
  \/ LoadAddresses
  \/ Discover
  \/ Phase1Fetch
  \/ Phase1Filter
  \/ Phase2Enrich
  \/ ScoreAndSelect
  \/ StoreAccount
  \/ StoreDone
  \/ RecordSelected
  \/ CompleteRun
  \/ FailRun
  \/ Close

(***************************************************************************)
(* PolymarketCollector.calculateMetrics and fetchAccountMetrics            *)
(*                                                                         *)
(* A ratio is <<>> (null) or the exact fraction <<numerator, denominator>>.*)
(***************************************************************************)
Sources == <<"positions", "closedPositions", "activity">>
SourceNames == {"positions", "closedPositions", "activity"}

\* seq.filter(x => x > 0).length
CountPositive(numbers) == Cardinality({i \in 1..Len(numbers) : numbers[i] > 0})

CountNegative_WithNeutral(numbers) ==
  Cardinality({i \in 1..Len(numbers) : numbers[i] <= 0})

\* seq.filter(x => x < 0).length
CountNegative(numbers) == Cardinality({i \in 1..Len(numbers) : numbers[i] < 0})

\* seq.map(p => p.realizedPnl), .map(p => p.cashPnl), .map(a => a.usdcSize || 0)
RealizedPnls(seq) == [i \in 1..Len(seq) |-> seq[i].realizedPnl]
CashPnls(seq) == [i \in 1..Len(seq) |-> seq[i].cashPnl]
UsdcSizes(seq) == [i \in 1..Len(seq) |-> seq[i].usdcSize]


StrictWinRate_ZeroWhenEmpty(wins, losses) ==
  IF wins + losses > 0 THEN <<wins, wins + losses>> ELSE <<0, 1>>

\* collector.js:431,446  totalClosed > 0 ? wins / totalClosed : null
StrictWinRate(wins, losses) ==
  IF wins + losses > 0 THEN <<wins, wins + losses>> ELSE None

ConfidenceScore_Capped(totalClosed, positionsCount) ==
  IF positionsCount > 0 THEN <<Min(totalClosed, positionsCount), positionsCount>>
  ELSE <<0, 1>>

\* collector.js:447  positions.length > 0 ? totalClosed / positions.length : 0
ConfidenceScore(totalClosed, positionsCount) ==
  IF positionsCount > 0 THEN <<totalClosed, positionsCount>> ELSE <<0, 1>>

\* collector.js:424-490
calculateMetrics(address, positions, closedPositions, activity, windowStart) ==
  LET wins90d == CountPositive(RealizedPnls(closedPositions))
      losses90d == CountNegative(RealizedPnls(closedPositions))
      totalClosed90d == wins90d + losses90d
      winRate90d == StrictWinRate(wins90d, losses90d)
      volume90d == SumSeq(UsdcSizes(activity))
      trades90d == Len(activity)
      realizedPnl90d == SumSeq(RealizedPnls(closedPositions))
      wins == CountPositive(RealizedPnls(closedPositions))
      losses == CountNegative(RealizedPnls(closedPositions))
      totalClosed == wins + losses
      strictWinRate == StrictWinRate(wins, losses)
      confidenceScore == ConfidenceScore(totalClosed, Len(positions))
      proxyWins == CountPositive(CashPnls(positions))
      proxyWinRate == IF Len(positions) > 0 THEN <<proxyWins, Len(positions)>> ELSE None
  IN [address |-> address,
      totalTrades |-> trades90d,
      totalVolumeUsd |-> volume90d,
      realizedPnl |-> SumSeq(RealizedPnls(positions)),
      strictWinRate |-> strictWinRate,
      proxyWinRate |-> proxyWinRate,
      confidenceScore |-> confidenceScore,
      winCount |-> wins,
      lossCount |-> losses,
      closedPositions |-> totalClosed,
      positionsCount |-> Len(positions),
      activityCount |-> Len(activity),
      winRate90d |-> winRate90d,
      volume90d |-> volume90d,
      trades90d |-> trades90d,
      realizedPnl90d |-> realizedPnl90d,
      winCount90d |-> wins90d,
      lossCount90d |-> losses90d,
      closedPositions90d |-> totalClosed90d,
      _positions |-> positions,
      _closedPositions |-> closedPositions,
      _activity |-> activity]

\* what each source can return for the address
PositionResults ==
  { <<>>,
    <<[realizedPnl |-> 5, cashPnl |-> 1]>>,
    <<[realizedPnl |-> -3, cashPnl |-> -1], [realizedPnl |-> 0, cashPnl |-> 2]>> }
ClosedPositionResults ==
  { <<>>,
    <<[realizedPnl |-> 4]>>,
    <<[realizedPnl |-> 4], [realizedPnl |-> -2], [realizedPnl |-> 0]>> }
ActivityResults ==
  { <<>>,
    <<[usdcSize |-> 100, timestamp |-> 50]>>,
    <<[usdcSize |-> 100, timestamp |-> 50], [usdcSize |-> 250, timestamp |-> 40]>> }
ResultsOf(source) ==
  CASE source = "positions" -> PositionResults
    [] source = "closedPositions" -> ClosedPositionResults
    [] source = "activity" -> ActivityResults
FamAddress == 1
FamWindowStart == 30

Settled(state) == state \in {"fulfilled", "rejected"}

AllSettled_FailFast(states) ==
  \/ \E src \in SourceNames : states[src] = "rejected"
  \/ \A src \in SourceNames : states[src] = "fulfilled"

\* collector.js:375  await Promise.allSettled([...]) continues when every
\* promise has settled
AllSettled(states) == \A src \in SourceNames : Settled(states[src])

\* collector.js:382-384  results[i].status === 'fulfilled' ? results[i].value : []
SourceValue(states, values, source) ==
  IF states[source] = "fulfilled" THEN values[source] ELSE <<>>

PartialSuccess_Every(states) == \A src \in SourceNames : states[src] = "rejected"

\* collector.js:398  results.some(r => r.status === 'rejected')
PartialSuccess(states) == \E src \in SourceNames : states[src] = "rejected"

\* collector.js:399-401  the names of the rejected results, in source order
FailedEndpoints(states) ==
  SelectSeq(Sources, LAMBDA src : states[src] = "rejected")

FamInit ==
  /\ famPc = "init"
  /\ fetchState = [src \in SourceNames |-> "notStarted"]
  /\ fetchValue = [src \in SourceNames |-> <<>>]
  /\ famMetrics = None

\* collector.js:375-379  the three fetches are called in turn; each runs up
\* to its await rateLimiter.acquire()
StartFetches ==
  /\ famPc = "init"
  /\ fetchState' = [src \in SourceNames |-> "throttle"]
  /\ famPc' = "waiting"
  /\ UNCHANGED <<fetchValue, famMetrics>>
  /\ UNCHANGED notFam

\* collector.js:168,198,276  the acquire() of a fetch returns
ThrottleGranted(src) ==
  /\ fetchState[src] = "throttle"
  /\ fetchState' = [fetchState EXCEPT ![src] = "request"]
  /\ UNCHANGED <<famPc, fetchValue, famMetrics>>
  /\ UNCHANGED notFam

\* collector.js:170-183,200-219,236  a fetch resolves with its collection
FetchFulfils(src) ==
  /\ fetchState[src] = "request"
  /\ \E value \in ResultsOf(src) :
        fetchValue' = [fetchValue EXCEPT ![src] = value]
  /\ fetchState' = [fetchState EXCEPT ![src] = "fulfilled"]
  /\ UNCHANGED <<famPc, famMetrics>>
  /\ UNCHANGED notFam

\* collector.js:170,200,278  executeWithRetry throws: the fetch rejects
FetchRejects(src) ==
  /\ fetchState[src] = "request"
  /\ fetchState' = [fetchState EXCEPT ![src] = "rejected"]
  /\ UNCHANGED <<famPc, fetchValue, famMetrics>>
  /\ UNCHANGED notFam

\* collector.js:375-409  allSettled resumes; metrics are computed and returned
ComputeMetrics ==
  /\ famPc = "waiting"
  /\ AllSettled(fetchState)
  /\ famMetrics' =
       Some([metrics |-> calculateMetrics(FamAddress,
                            SourceValue(fetchState, fetchValue, "positions"),
                            SourceValue(fetchState, fetchValue, "closedPositions"),
                            SourceValue(fetchState, fetchValue, "activity"),
                            FamWindowStart),
             _partialSuccess |-> PartialSuccess(fetchState),
             _failedEndpoints |-> FailedEndpoints(fetchState),
             windowStart |-> FamWindowStart])
  /\ famPc' = "resolved"
  /\ UNCHANGED <<fetchState, fetchValue>>
  /\ UNCHANGED notFam

FamNext ==
  \/ StartFetches
  \/ \E src \in SourceNames : ThrottleGranted(src)
  \/ \E src \in SourceNames : FetchFulfils(src)
  \/ \E src \in SourceNames : FetchRejects(src)
  \/ ComputeMetrics

FamIdle ==
  /\ famPc = "idle"
  /\ fetchState = [src \in SourceNames |-> "notStarted"]
  /\ fetchValue = [src \in SourceNames |-> <<>>]
  /\ famMetrics = None

(***************************************************************************)
(* PolymarketCollector._fetchAllActivity                                   *)
(*                                                                         *)
(* An activity record is [timestamp, usdcSize]; timestamp 0 stands for a   *)
(* missing or falsy timestamp and usdcSize 0 for a missing or zero size    *)
(* (a.usdcSize || 0).  A page request is one executeWithRetry call.        *)
(***************************************************************************)
MaxActivityPagesBound == 3
AfterTimestamp == 4
Activity(timestamp, usdcSize) == [timestamp |-> timestamp, usdcSize |-> usdcSize]

\* bodies the activity endpoint can answer with; None is a null body
ActivityPages ==
  { None,
    Some(<<>>),
    Some(<<Activity(7, 0)>>),
    Some(<<Activity(7, 10)>>),
    Some(<<Activity(7, 0), Activity(5, 0)>>),
    Some(<<Activity(5, 10), Activity(0, 0)>>),
    Some(<<Activity(0, 0)>>),
    Some(<<Activity(4, 0)>>),
    Some(<<Activity(5, 0), Activity(3, 0)>>) }

\* collector.js:96-110  maxActivityPages || 5, minTradesForStop || 200,
\* minVolumeForStop || 10000: none of them is ever 0
FetchAllConfigs ==
  [maxActivityPages : 1..MaxActivityPagesBound,
   minTradesForStop : {2, 3},
   minVolumeForStop : {10, 20},
   afterTimestamp : {AfterTimestamp}]

\* collector.js:308  result.map(a => a.timestamp).filter(t => t)
Timestamps(page) ==
  SelectSeq([i \in 1..Len(page) |-> page[i].timestamp], LAMBDA t : t # 0)

RECURSIVE MaxOfSeq(_)
MaxOfSeq(numbers) ==
  IF Len(numbers) = 1 THEN Head(numbers)
  ELSE Max(Head(numbers), MaxOfSeq(Tail(numbers)))

RECURSIVE MinOfSeq(_)
\* collector.js:311  Math.min(...timestamps), timestamps not empty
MinOfSeq(numbers) ==
  IF Len(numbers) = 1 THEN Head(numbers)
  ELSE Min(Head(numbers), MinOfSeq(Tail(numbers)))

EarliestTimestamp_Latest(page) == MaxOfSeq(Timestamps(page))

EarliestTimestamp(page) == MinOfSeq(Timestamps(page))

ContinuePaging_Inclusive(iter, cfg) == iter <= cfg.maxActivityPages

\* collector.js:275  while (iteration < this.maxActivityPages)
ContinuePaging(iter, cfg) == iter < cfg.maxActivityPages

EarlyStop_TradesOnly(trades, volume, cfg) == trades >= cfg.minTradesForStop

\* collector.js:299-306  the two early-stop tests
EarlyStop(trades, volume, cfg) ==
  \/ trades >= cfg.minTradesForStop
  \/ volume >= cfg.minVolumeForStop

\* collector.js:322  allActivity.filter(a => !a.timestamp || a.timestamp >= afterTimestamp)
FilterWindow(records, afterTimestamp) ==
  SelectSeq(records, LAMBDA a : a.timestamp = 0 \/ a.timestamp >= afterTimestamp)

FetchAllInit ==
  /\ faCfg \in FetchAllConfigs
  /\ faPc = "init"
  /\ before = None
  /\ iteration = 0
  /\ totalVolume = 0
  /\ totalTrades = 0
  /\ allActivity = <<>>
  /\ faRequests = <<>>
  /\ faPages = <<>>
  /\ faResult = None

\* collector.js:266-276  the call runs up to its first acquire()
FetchAllStart ==
  /\ faPc = "init"
  /\ faPc' = IF ContinuePaging(iteration, faCfg) THEN "acquire" ELSE "done"
  /\ faResult' = IF ContinuePaging(iteration, faCfg) THEN faResult ELSE Some(<<>>)
  /\ UNCHANGED <<faCfg, before, iteration, totalVolume, totalTrades, allActivity,
                 faRequests, faPages>>
  /\ UNCHANGED notFa

\* collector.js:276-288  acquire() returns and the page request goes out
RequestPage ==
  /\ faPc = "acquire"
  /\ faRequests' = Append(faRequests,
                          [after |-> faCfg.afterTimestamp, before |-> before])
  /\ faPc' = "request"
  /\ UNCHANGED <<faCfg, before, iteration, totalVolume, totalTrades, allActivity,
                 faPages, faResult>>
  /\ UNCHANGED notFa

\* collector.js:290-323  a page arrives and the rest of the loop body runs, up
\* to the next acquire() or the return
PageArrives(body) ==
  /\ faPc = "request"
  /\ faPages' = Append(faPages, body)
  /\ IF body = None \/ body = Some(<<>>)
     THEN /\ faPc' = "done"
          /\ faResult' = Some(FilterWindow(allActivity, faCfg.afterTimestamp))
          /\ UNCHANGED <<before, iteration, totalVolume, totalTrades, allActivity>>
     ELSE LET result == body[1]
              trades == totalTrades + Len(result)
              volume == totalVolume + SumSeq(UsdcSizes(result))
              stop == \/ EarlyStop(trades, volume, faCfg)
                      \/ Timestamps(result) = <<>>
                      \/ EarliestTimestamp(result) <= faCfg.afterTimestamp
              done == stop \/ ~ContinuePaging(iteration + 1, faCfg)
          IN /\ allActivity' = allActivity \o result
             /\ totalTrades' = trades
             /\ totalVolume' = volume
             /\ before' = IF stop THEN before ELSE Some(EarliestTimestamp(result))
             /\ iteration' = IF stop THEN iteration ELSE iteration + 1
             /\ faPc' = IF done THEN "done" ELSE "acquire"
             /\ faResult' = IF done
                            THEN Some(FilterWindow(allActivity \o result,
                                                   faCfg.afterTimestamp))
                            ELSE faResult
  /\ UNCHANGED <<faCfg, faRequests>>
  /\ UNCHANGED notFa

\* collector.js:278  executeWithRetry throws: the call rejects
PageFails ==
  /\ faPc = "request"
  /\ faPc' = "threw"
  /\ UNCHANGED <<faCfg, before, iteration, totalVolume, totalTrades, allActivity,
                 faRequests, faPages, faResult>>
  /\ UNCHANGED notFa

FetchAllNext ==
  \/ FetchAllStart
  \/ RequestPage
  \/ \E body \in ActivityPages : PageArrives(body)
  \/ PageFails

FetchAllIdle ==
  /\ faCfg = [maxActivityPages |-> 1, minTradesForStop |-> 2,
              minVolumeForStop |-> 10, afterTimestamp |-> AfterTimestamp]
  /\ faPc = "idle"
  /\ before = None
  /\ iteration = 0
  /\ totalVolume = 0
  /\ totalTrades = 0
  /\ allActivity = <<>>
  /\ faRequests = <<>>
  /\ faPages = <<>>
  /\ faResult = None

(***************************************************************************)
(* PolymarketCollector.fetchTrades and discoverTradersFromTrades           *)
(*                                                                         *)
(* response.data is the parsed JSON body.  fetchTrades reads next_cursor,  *)
(* count and length from it and discoverTradersFromTrades iterates it:     *)
(*   - a JSON array is iterable and has a length, but neither next_cursor  *)
(*     nor count;                                                          *)
(*   - a JSON object can carry next_cursor and count, but is not iterable: *)
(*     for (const trade of result.trades) throws a TypeError.              *)
(* A body is [kind, items, next_cursor, count]; next_cursor "" and count 0 *)
(* stand for an absent (or falsy) property, proxyWallet "" for an absent   *)
(* or empty wallet.                                                        *)
(***************************************************************************)
MaxNumTrades == 3
MaxPageLen == 3
MaxLimit == 1000
Wallets == {"", "0xA", "0xB"}
Trade(wallet) == [proxyWallet |-> wallet]

RECURSIVE SeqsUpTo(_, _)
SeqsUpTo(S, n) ==
  IF n = 0 THEN {<<>>}
  ELSE LET shorter == SeqsUpTo(S, n - 1)
       IN shorter \cup {Append(q, x) : q \in shorter, x \in S}

ArrayBodies ==
  { [kind |-> "array", items |-> items, next_cursor |-> "", count |-> 0] :
      items \in SeqsUpTo({Trade(w) : w \in Wallets}, MaxPageLen) }
ObjectBodies ==
  { [kind |-> "object", items |-> <<>>, next_cursor |-> c, count |-> n] :
      c \in {"", "c1"}, n \in {0, 2} }
TradeBodies == ArrayBodies \cup ObjectBodies

\* collector.js:149-153  the result fetchTrades resolves with
fetchTrades(body) ==
  [trades |-> body,
   nextCursor |-> body.next_cursor,
   count |-> IF body.count # 0 THEN body.count ELSE Len(body.items)]

\* collector.js:130  Math.min(options.limit || 100, 1000)
TradesLimit(limit) == Min(IF limit = 0 THEN 100 ELSE limit, MaxLimit)

HasWallet_Always(trade) == TRUE

\* collector.js:347  if (trade.proxyWallet)
HasWallet(trade) == trade.proxyWallet # ""

ScanMore_Inclusive(scanned, wanted) == scanned <= wanted

\* collector.js:341  while (fetched < numTrades)
ScanMore(scanned, wanted) == scanned < wanted

\* collector.js:346-350  the wallets a page adds to the Set
WalletsOf(items) ==
  {items[i].proxyWallet : i \in {j \in 1..Len(items) : HasWallet(items[j])}}

DiscoverInit ==
  /\ numTrades \in 0..MaxNumTrades
  /\ dtPc = "init"
  /\ traders = {}
  /\ cursor = ""
  /\ fetched = 0
  /\ dtRequests = <<>>
  /\ dtBodies = <<>>
  /\ dtResult = None

\* collector.js:334-343 and 129-138  the call runs up to the acquire() of its
\* first fetchTrades, or returns the empty Set
DiscoverStart ==
  /\ dtPc = "init"
  /\ IF ScanMore(fetched, numTrades)
     THEN /\ dtRequests' = Append(dtRequests,
                 [limit |-> TradesLimit(Min(MaxLimit, numTrades - fetched)),
                  cursor |-> cursor])
          /\ dtPc' = "request"
          /\ UNCHANGED dtResult
     ELSE /\ dtPc' = "done"
          /\ dtResult' = Some(traders)
          /\ UNCHANGED dtRequests
  /\ UNCHANGED <<numTrades, traders, cursor, fetched, dtBodies>>
  /\ UNCHANGED notDt

\* collector.js:343-355  fetchTrades resolves; the rest of the loop body runs,
\* up to the next fetchTrades or the return
TradesArrive(body) ==
  /\ dtPc = "request"
  /\ dtBodies' = Append(dtBodies, body)
  /\ IF body.kind # "array"
     THEN \* for...of over a value that is not iterable
          /\ dtPc' = "threw"
          /\ UNCHANGED <<traders, cursor, fetched, dtRequests, dtResult>>
     ELSE LET result == fetchTrades(body)
              found == traders \cup WalletsOf(result.trades.items)
              scanned == fetched + result.count
              more == result.nextCursor # "" /\ ScanMore(scanned, numTrades)
          IN /\ traders' = found
             /\ fetched' = scanned
             /\ cursor' = IF result.nextCursor # "" THEN result.nextCursor ELSE cursor
             /\ IF more
                THEN /\ dtRequests' = Append(dtRequests,
                            [limit |-> TradesLimit(Min(MaxLimit, numTrades - scanned)),
                             cursor |-> result.nextCursor])
                     /\ dtPc' = "request"
                     /\ UNCHANGED dtResult
                ELSE /\ dtPc' = "done"
                     /\ dtResult' = Some(found)
                     /\ UNCHANGED dtRequests
  /\ UNCHANGED numTrades
  /\ UNCHANGED notDt

\* collector.js:138-154  executeWithRetry throws (HTTP failure, or a null
\* body, whose next_cursor cannot be read): the call rejects
TradesFail ==
  /\ dtPc = "request"
  /\ dtPc' = "threw"
  /\ UNCHANGED <<numTrades, traders, cursor, fetched, dtRequests, dtBodies, dtResult>>
  /\ UNCHANGED notDt

DiscoverNext ==
  \/ DiscoverStart
  \/ \E body \in TradeBodies : TradesArrive(body)
  \/ TradesFail

DiscoverIdle ==
  /\ numTrades = 0
  /\ dtPc = "idle"
  /\ traders = {}
  /\ cursor = ""
  /\ fetched = 0
  /\ dtRequests = <<>>
  /\ dtBodies = <<>>
  /\ dtResult = None

(***************************************************************************)
(* AccountSelector.select as a function of its criteria and its input      *)
(*                                                                         *)
(* A 90-day field that is None is absent from the account (undefined).     *)
(***************************************************************************)
MaxInput == 2

\* an account that meets the default-mode thresholds of every SelectorCriteria
GoodAccount ==
  [address |-> 1, compositeScore |-> 5000,
   strictWinRate |-> Some(60), proxyWinRate |-> Some(60), winRate90d |-> None,
   totalTrades |-> 20, trades90d |-> None,
   totalVolumeUsd |-> 500, volume90d |-> None,
   realizedPnl |-> 10, realizedPnl90d |-> None,
   confidenceScore |-> 50]

\* GoodAccount with one aspect changed at a time
SelectorAccounts ==
  { GoodAccount,
    [GoodAccount EXCEPT !.address = 2, !.compositeScore = 6000, !.strictWinRate = None],
    [GoodAccount EXCEPT !.address = 3, !.compositeScore = 7000,
                        !.strictWinRate = None, !.proxyWinRate = None],
    [GoodAccount EXCEPT !.address = 4, !.compositeScore = 7000,
                        !.strictWinRate = None, !.proxyWinRate = None,
                        !.winRate90d = Some(90)],
    [GoodAccount EXCEPT !.address = 5, !.strictWinRate = Some(40), !.proxyWinRate = Some(90)],
    [GoodAccount EXCEPT !.address = 6, !.strictWinRate = Some(0), !.proxyWinRate = Some(0)],
    [GoodAccount EXCEPT !.address = 7, !.totalTrades = 5],
    [GoodAccount EXCEPT !.address = 8, !.totalTrades = 5, !.trades90d = Some(20)],
    [GoodAccount EXCEPT !.address = 9, !.trades90d = Some(0)],
    [GoodAccount EXCEPT !.address = 10, !.totalVolumeUsd = 50],
    [GoodAccount EXCEPT !.address = 11, !.realizedPnl = -5],
    [GoodAccount EXCEPT !.address = 12, !.realizedPnl = -5, !.realizedPnl90d = Some(10)],
    [GoodAccount EXCEPT !.address = 13, !.confidenceScore = 5],
    [GoodAccount EXCEPT !.address = 14, !.strictWinRate = None, !.proxyWinRate = Some(40)] }

\* selector.js:21-29  the options of the constructor
SelectorCriteria ==
  [minTrades : {10}, minVolumeUsd : {100}, minWinRate : {-10, 0, 50},
   minConfidence : {10}, minPnl : {0}, topN : {0, 1, 5},
   use90dMetrics : BOOLEAN]

SelectInit ==
  /\ criteria \in SelectorCriteria
  /\ selInput \in SeqsUpTo(SelectorAccounts, MaxInput)
  /\ selection = None

\* selector.js:36-103  select(scoredAccounts)
Select ==
  /\ selection = None
  /\ selection' = Some([selected |-> select(selInput, criteria),
                        summary |-> generateSummary(select(selInput, criteria)),
                        _stats |-> selectStats(selInput, criteria)])
  /\ UNCHANGED <<criteria, selInput>>
  /\ UNCHANGED notSel

SelectNext == Select

SelectIdle ==
  /\ criteria = [minTrades |-> 10, minVolumeUsd |-> 100, minWinRate |-> 50,
                 minConfidence |-> 10, minPnl |-> 0, topN |-> 5,
                 use90dMetrics |-> FALSE]
  /\ selInput = <<>>
  /\ selection = None

(***************************************************************************)
(* calculateMetrics and scoreBatch as functions of their inputs            *)
(*                                                                         *)
(* realizedPnl 0 also stands for a record without realizedPnl, cashPnl 0   *)
(* for one without cashPnl: neither is > 0 nor < 0, and each adds 0.       *)
(***************************************************************************)
MaxClosed == 3
MaxOpen == 2
Closed(pnl) == [realizedPnl |-> pnl]
Open(pnl, cash) == [realizedPnl |-> pnl, cashPnl |-> cash]

\* metric-definition.md:7-28  6 wins, 3 losses, 1 neutral
SixThreeOne ==
  [i \in 1..10 |-> IF i <= 6 THEN Closed(4) ELSE IF i <= 9 THEN Closed(-2) ELSE Closed(0)]

ClosedInputs ==
  SeqsUpTo({Closed(-2), Closed(0), Closed(4)}, MaxClosed) \cup {SixThreeOne}
OpenInputs == SeqsUpTo({Open(5, 1), Open(-3, -1), Open(0, 2)}, MaxOpen)
ActivityInputs ==
  { <<>>,
    <<[usdcSize |-> 1000, timestamp |-> 50]>>,
    <<[usdcSize |-> 5000, timestamp |-> 50], [usdcSize |-> 5000, timestamp |-> 40]>> }

\* a ratio as the scorer model reads it: in hundredths, rounded down
Hundredths(ratio) ==
  IF ratio = None THEN None ELSE Some((ratio[1] * 100) \div ratio[2])

\* 001_init.sql:273-296  the properties score destructures from a record of
\* calculateMetrics, in the units of the scorer model
MetricsForScorer(m) ==
  [address |-> m.address,
   winRate90d |-> Hundredths(m.winRate90d),
   volume90d |-> Some(m.volume90d),
   trades90d |-> Some(m.trades90d),
   realizedPnl90d |-> Some(m.realizedPnl90d),
   strictWinRate |-> Hundredths(m.strictWinRate),
   proxyWinRate |-> Hundredths(m.proxyWinRate),
   totalVolumeUsd |-> Some(m.totalVolumeUsd),
   confidenceScore |-> Hundredths(m.confidenceScore),
   totalTrades |-> Some(m.totalTrades),
   realizedPnl |-> m.realizedPnl,
   winCount |-> Some(m.winCount),
   lossCount |-> Some(m.lossCount),
   closedPositions |-> Some(m.closedPositions),
   winCount90d |-> Some(m.winCount90d),
   lossCount90d |-> Some(m.lossCount90d),
   closedPositions90d |-> Some(m.closedPositions90d)]

\* a second record for the batch
OtherMetrics ==
  calculateMetrics(2, <<Open(5, 1)>>, <<Closed(4)>>, <<>>, FamWindowStart)
BatchTails == {<<>>, <<OtherMetrics>>}

MetricsInit ==
  /\ mxPositions \in OpenInputs
  /\ mxClosed \in ClosedInputs
  /\ mxActivity \in ActivityInputs
  /\ mxMetrics = None
  /\ mxScored = None

\* collector.js:424-490  calculateMetrics(address, positions, closedPositions, activity)
CalculateMetrics ==
  /\ mxMetrics = None
  /\ mxMetrics' = Some(calculateMetrics(FamAddress, mxPositions, mxClosed,
                                        mxActivity, FamWindowStart))
  /\ UNCHANGED <<mxPositions, mxClosed, mxActivity, mxScored>>
  /\ UNCHANGED notMx

\* 001_init.sql:410-412  scoreBatch([m, ...])
ScoreMetrics ==
  /\ mxMetrics # None
  /\ mxScored = None
  /\ \E tail \in BatchTails :
        mxScored' = Some([batch |-> <<mxMetrics[1]>> \o tail,
                          scored |-> scoreBatch([i \in 1..(1 + Len(tail)) |->
                                        MetricsForScorer((<<mxMetrics[1]>> \o tail)[i])])])
  /\ UNCHANGED <<mxPositions, mxClosed, mxActivity, mxMetrics>>
  /\ UNCHANGED notMx

MetricsNext ==
  \/ CalculateMetrics
  \/ ScoreMetrics

MetricsIdle ==
  /\ mxPositions = <<>>
  /\ mxClosed = <<>>
  /\ mxActivity = <<>>
  /\ mxMetrics = None
  /\ mxScored = None

(***************************************************************************)
(* AccountScorer.score as a function of one metrics record                 *)
(* (001_init.sql:272-403): the record is any object a caller may pass, as   *)
(* the test script does, with or without the 90-day properties.            *)
(***************************************************************************)
\* part_002:19-30  the high performer of the test script, 90-day fields absent
HighPerformer ==
  [address |-> 1,
   strictWinRate |-> Some(75), proxyWinRate |-> Some(70), winRate90d |-> None,
   totalVolumeUsd |-> Some(50000), volume90d |-> None,
   confidenceScore |-> Some(60),
   totalTrades |-> Some(200), trades90d |-> None,
   realizedPnl |-> 15000, realizedPnl90d |-> None,
   winCount |-> Some(30), lossCount |-> Some(10), closedPositions |-> Some(40)]

\* the win rates, the volumes and the confidence together
ScoreInputsA ==
  { [HighPerformer EXCEPT !.strictWinRate = swr, !.proxyWinRate = pwr,
                          !.winRate90d = w90, !.totalVolumeUsd = vol,
                          !.volume90d = v90, !.confidenceScore = conf] :
      swr \in {None, Some(30), Some(50), Some(55), Some(60), Some(80)},
      pwr \in {None, Some(35), Some(90)},
      w90 \in {None, Some(40)},
      vol \in {None, Some(0), Some(500), Some(1000), Some(10000),
               Some(1000000), Some(2000000)},
      v90 \in {None, Some(5000)},
      conf \in {None, Some(10), Some(30), Some(50)} }

\* the trades, the PnL and the closed positions together
ScoreInputsB ==
  { [HighPerformer EXCEPT !.strictWinRate = swr, !.totalTrades = tr,
                          !.trades90d = t90, !.realizedPnl = pnl,
                          !.realizedPnl90d = p90, !.closedPositions = cp] :
      swr \in {None, Some(50), Some(55), Some(60)},
      tr \in {None, Some(5), Some(20), Some(100)},
      t90 \in {None, Some(150)},
      pnl \in {-50, 0, 100},
      p90 \in {None, Some(-4)},
      cp \in {None, Some(5), Some(10)} }

ScoreInit ==
  /\ scMetrics \in ScoreInputsA \cup ScoreInputsB
  /\ scScored = None

\* 001_init.sql:272  scorer.score(metrics), default weights
Score ==
  /\ scScored = None
  /\ scScored' = Some(score(scMetrics))
  /\ UNCHANGED scMetrics
  /\ UNCHANGED notSc

ScoreNext == Score

ScoreIdle ==
  /\ scMetrics = None
  /\ scScored = None

(***************************************************************************)
(* AccountScorer.normalizeVolume on two volumes (001_init.sql:366-372)     *)
(***************************************************************************)
\* the volumes of the logarithm table, the non-positive ones and a missing one
VolumeInputs ==
  {None} \cup {Some(v) : v \in {-5, 0, 1, 500, 999, 1000, 5000, 10000, 50000,
                                999999, 1000000, 2000000, 10000000}}

NormalizeInit ==
  /\ nvInput \in VolumeInputs \X VolumeInputs
  /\ nvResult = None

\* scorer.normalizeVolume(v) for each of the two volumes
Normalize ==
  /\ nvResult = None
  /\ nvResult' = Some(<<NormalizeVolumeOpt(nvInput[1]), NormalizeVolumeOpt(nvInput[2])>>)
  /\ UNCHANGED nvInput
  /\ UNCHANGED notNv

NormalizeNext == Normalize

NormalizeIdle ==
  /\ nvInput = None
  /\ nvResult = None

(***************************************************************************)
(* Several executeWithRetry invocations on one RetryHandler, interleaved   *)
(* at their awaits: the three source fetches of fetchAccountMetrics        *)
(* (collector.js:375-379) all go through this.retryHandler.                *)
(***************************************************************************)
Invocations == SourceNames
\* one retryable and one non-retryable status are enough to tell the cases
ConcurrentStatuses == {404, 429}

NextAttempts_Shared(attempts, inv) == [i \in DOMAIN attempts |-> attempts[i] + 1]

\* collector.js:64  for (let attempt = 0; ...; attempt++): the counter is a
\* local of the invocation
NextAttempts(attempts, inv) == [attempts EXCEPT ![inv] = @ + 1]

ConcurrentInit ==
  /\ ccMaxRetries \in 0..MaxRetriesBound
  /\ ccBaseDelayMs \in {1000}
  /\ ccPc = [i \in Invocations |-> "call"]
  /\ ccAttempt = [i \in Invocations |-> 0]
  /\ ccFailures = [i \in Invocations |-> <<>>]
  /\ ccWaits = [i \in Invocations |-> <<>>]

\* collector.js:66  return await fn();   fn resolves
ConcurrentSucceeds ==
  \E inv \in Invocations :
    /\ ccPc[inv] = "call"
    /\ ccPc' = [ccPc EXCEPT ![inv] = "returned"]
    /\ UNCHANGED <<ccMaxRetries, ccBaseDelayMs, ccAttempt, ccFailures, ccWaits>>
    /\ UNCHANGED notCc

\* collector.js:67-83  fn rejects: classify, rethrow or back off
ConcurrentFails ==
  \E inv \in Invocations : \E status \in ConcurrentStatuses :
    /\ ccPc[inv] = "call"
    /\ ccFailures' = [ccFailures EXCEPT ![inv] = Append(@, status)]
    /\ IF ~IsRetryable(status) \/ IsLastAttempt(ccAttempt[inv], ccMaxRetries)
       THEN /\ ccPc' = [ccPc EXCEPT ![inv] = "thrown"]
            /\ UNCHANGED ccWaits
       ELSE /\ ccPc' = [ccPc EXCEPT ![inv] = "sleeping"]
            /\ ccWaits' = [ccWaits EXCEPT ![inv] =
                             Append(@, BackoffDelay(ccBaseDelayMs, ccAttempt[inv]))]
    /\ UNCHANGED <<ccMaxRetries, ccBaseDelayMs, ccAttempt>>
    /\ UNCHANGED notCc

\* collector.js:82,64,86  the sleep ends; attempt++; loop test; throw lastError
ConcurrentBackoffElapsed ==
  \E inv \in Invocations :
    /\ ccPc[inv] = "sleeping"
    /\ ccAttempt' = NextAttempts(ccAttempt, inv)
    /\ ccPc' = [ccPc EXCEPT ![inv] =
                  IF ccAttempt'[inv] <= ccMaxRetries THEN "call" ELSE "thrown"]
    /\ UNCHANGED <<ccMaxRetries, ccBaseDelayMs, ccFailures, ccWaits>>
    /\ UNCHANGED notCc

ConcurrentNext ==
  \/ ConcurrentSucceeds
  \/ ConcurrentFails
  \/ ConcurrentBackoffElapsed

ConcurrentIdle ==
  /\ ccMaxRetries = 0
  /\ ccBaseDelayMs = 0
  /\ ccPc = None
  /\ ccAttempt = None
  /\ ccFailures = None
  /\ ccWaits = None

(***************************************************************************)
(* A fetch method as a whole: fetchTrades, fetchPositions,                 *)
(* fetchClosedPositions and fetchActivity make one logical fetch           *)
(* (collector.js:164-184), _fetchAllActivity one per page                  *)
(* (collector.js:275-288).  Each is acquire() followed by executeWithRetry *)
(* around the function that issues the HTTP request.                       *)
(***************************************************************************)
WritesInAttempt_Acquire(writes) == writes + 1

\* collector.js:170-178  the function given to executeWithRetry builds the
\* parameters and calls axios.get; it does not touch the rate limiter
WritesInAttempt(writes) == writes

FetchInit ==
  /\ lfMaxRetries \in 0..MaxRetriesBound
  /\ lfPages \in 1..MaxActivityPagesBound
  /\ lfPc = "acquire"
  /\ lfAttempt = 0
  /\ lfWrites = 0
  /\ lfHttp = <<>>

\* collector.js:168, 276  await rateLimiter.acquire(): one assignment to
\* lastRequestTime (collector.js:46), then executeWithRetry starts at attempt 0
FetchAcquire ==
  /\ lfPc = "acquire"
  /\ lfWrites' = lfWrites + 1
  /\ lfHttp' = Append(lfHttp, 0)
  /\ lfAttempt' = 0
  /\ lfPc' = "call"
  /\ UNCHANGED <<lfMaxRetries, lfPages>>
  /\ UNCHANGED notLf

\* the request succeeds: the method returns, or the page loop goes on to
\* its next iteration (collector.js:275, 315)
FetchSucceeds ==
  /\ lfPc = "call"
  /\ lfHttp' = [lfHttp EXCEPT ![Len(lfHttp)] = @ + 1]
  /\ lfWrites' = WritesInAttempt(lfWrites)
  /\ \/ lfPc' = "returned"
     \/ Len(lfHttp) < lfPages /\ lfPc' = "acquire"
  /\ UNCHANGED <<lfMaxRetries, lfPages, lfAttempt>>
  /\ UNCHANGED notLf

\* the request fails (collector.js:67-83): rethrow or back off
FetchFails ==
  /\ lfPc = "call"
  /\ lfHttp' = [lfHttp EXCEPT ![Len(lfHttp)] = @ + 1]
  /\ lfWrites' = WritesInAttempt(lfWrites)
  /\ \E status \in ConcurrentStatuses :
        lfPc' = IF ~IsRetryable(status) \/ IsLastAttempt(lfAttempt, lfMaxRetries)
                THEN "thrown" ELSE "sleeping"
  /\ UNCHANGED <<lfMaxRetries, lfPages, lfAttempt>>
  /\ UNCHANGED notLf

\* collector.js:82, 64  the backoff ends; attempt++; next call of fn
FetchBackoffElapsed ==
  /\ lfPc = "sleeping"
  /\ lfAttempt' = lfAttempt + 1
  /\ lfPc' = "call"
  /\ UNCHANGED <<lfMaxRetries, lfPages, lfWrites, lfHttp>>
  /\ UNCHANGED notLf

FetchNext ==
  \/ FetchAcquire
  \/ FetchSucceeds
  \/ FetchFails
  \/ FetchBackoffElapsed

FetchIdle ==
  /\ lfMaxRetries = 0
  /\ lfPages = 0
  /\ lfPc = "idle"
  /\ lfAttempt = 0
  /\ lfWrites = 0
  /\ lfHttp = <<>>

(***************************************************************************)
(* fetchAccountMetrics with its activity fetch spelled out: fetchActivity  *)
(* with fetchAll: true returns this._fetchAllActivity(...)                 *)
(* (collector.js:234-236, 378), so the third promise of allSettled is the  *)
(* page loop.                                                              *)
(***************************************************************************)
SettledActivity_KeepPartial(loopPc, result, partial) ==
  IF loopPc = "threw"
  THEN [state |-> "fulfilled", value |-> partial]
  ELSE [state |-> "fulfilled", value |-> result[1]]

\* collector.js:278, 235  an executeWithRetry that throws inside the loop is
\* not caught there: _fetchAllActivity and with it fetchActivity reject;
\* otherwise the promise fulfils with the filtered records (collector.js:319)
SettledActivity(loopPc, result, partial) ==
  IF loopPc = "threw"
  THEN [state |-> "rejected", value |-> <<>>]
  ELSE [state |-> "fulfilled", value |-> result[1]]

\* collector.js:378  fetchActivity(address, {after, fetchAll: true}) enters
\* _fetchAllActivity
PagedActivityStarts ==
  /\ fetchState["activity"] = "throttle"
  /\ FetchAllStart

\* the promise of the activity fetch settles
PagedActivitySettles ==
  /\ fetchState["activity"] = "throttle"
  /\ faPc \in {"done", "threw"}
  /\ LET settled == SettledActivity(faPc, faResult, allActivity) IN
     /\ fetchState' = [fetchState EXCEPT !["activity"] = settled.state]
     /\ fetchValue' = [fetchValue EXCEPT !["activity"] = settled.value]
  /\ UNCHANGED <<famPc, famMetrics>>
  /\ UNCHANGED notFam

FamPagedNext ==
  \/ StartFetches
  \/ \E src \in SourceNames \ {"activity"} : ThrottleGranted(src)
  \/ \E src \in SourceNames \ {"activity"} : FetchFulfils(src)
  \/ \E src \in SourceNames \ {"activity"} : FetchRejects(src)
  \/ PagedActivityStarts
  \/ RequestPage
  \/ \E body \in ActivityPages : PageArrives(body)
  \/ PageFails
  \/ PagedActivitySettles
  \/ ComputeMetrics

(***************************************************************************)
(* One AccountSelector over several calls: select and updateCriteria       *)
(* (selector.js:36-103, 156-162; part_002:118-122)                         *)
(***************************************************************************)
MaxUpdates == 1

\* the criteria of the test script (part_002:80-86) and a stricter selector
UpdateStartCriteria ==
  { [minTrades |-> 10, minVolumeUsd |-> 100, minWinRate |-> 50,
     minConfidence |-> 20, minPnl |-> 0, topN |-> 5, use90dMetrics |-> FALSE],
    [minTrades |-> 30, minVolumeUsd |-> 1000, minWinRate |-> 65,
     minConfidence |-> 60, minPnl |-> 0, topN |-> 1, use90dMetrics |-> FALSE] }

\* arguments of updateCriteria: any subset of the properties may be given;
\* <<>> is the object without properties
UpdateArgs ==
  { <<>>,
    [minWinRate |-> 55, topN |-> 3],
    [minTrades |-> 0],
    [minVolume |-> 0],
    [minWinRate |-> 0],
    [minConfidence |-> 0],
    [topN |-> 1],
    [topN |-> 0],
    [minPnl |-> 100],
    [minTrades |-> 5, minVolume |-> 50, minWinRate |-> 40, minConfidence |-> 5,
     topN |-> 5] }

\* the accounts selected from: one good account and accounts failing one
\* threshold each
UpdateAccounts ==
  {a \in SelectorAccounts : a.address \in {1, 2, 5, 7, 10, 13}}

updateCriteria_NoTopN(crit, c) ==
  [crit EXCEPT
     !.minTrades = IF "minTrades" \in DOMAIN c THEN c.minTrades ELSE @,
     !.minVolumeUsd = IF "minVolume" \in DOMAIN c THEN c.minVolume ELSE @,
     !.minWinRate = IF "minWinRate" \in DOMAIN c THEN c.minWinRate ELSE @,
     !.minConfidence = IF "minConfidence" \in DOMAIN c THEN c.minConfidence ELSE @]

\* selector.js:156-162  if (criteria.x !== undefined) this.x = criteria.x,
\* for minTrades, minVolume, minWinRate, minConfidence and topN
updateCriteria(crit, c) ==
  [crit EXCEPT
     !.minTrades = IF "minTrades" \in DOMAIN c THEN c.minTrades ELSE @,
     !.minVolumeUsd = IF "minVolume" \in DOMAIN c THEN c.minVolume ELSE @,
     !.minWinRate = IF "minWinRate" \in DOMAIN c THEN c.minWinRate ELSE @,
     !.minConfidence = IF "minConfidence" \in DOMAIN c THEN c.minConfidence ELSE @,
     !.topN = IF "topN" \in DOMAIN c THEN c.topN ELSE @]

CriteriaInit ==
  /\ criteria \in UpdateStartCriteria
  /\ selInput \in SeqsUpTo(UpdateAccounts, MaxInput)
  /\ selection = None
  /\ ucBefore = criteria
  /\ ucArg = <<>>
  /\ ucPrev = None
  /\ ucCount = 0

\* selector.js:36-103  selector.select(scoredAccounts), any number of times
SelectAgain ==
  /\ selection' = Some([selected |-> select(selInput, criteria),
                        summary |-> generateSummary(select(selInput, criteria)),
                        _stats |-> selectStats(selInput, criteria)])
  /\ ucPrev' = selection
  /\ UNCHANGED <<criteria, selInput, ucBefore, ucArg, ucCount>>
  /\ UNCHANGED <<rhVars, rlVars, mainVars, famVars, faVars, dtVars, mxVars, scVars,
                 nvVars, ccVars, lfVars>>

\* selector.js:156-162  selector.updateCriteria(c)
UpdateCriteria ==
  /\ ucCount < MaxUpdates
  /\ \E c \in UpdateArgs :
        /\ criteria' = updateCriteria(criteria, c)
        /\ ucArg' = c
  /\ ucBefore' = criteria
  /\ ucCount' = ucCount + 1
  /\ selection' = None
  /\ ucPrev' = None
  /\ UNCHANGED selInput
  /\ UNCHANGED <<rhVars, rlVars, mainVars, famVars, faVars, dtVars, mxVars, scVars,
                 nvVars, ccVars, lfVars>>

CriteriaNext ==
  \/ SelectAgain
  \/ UpdateCriteria

CriteriaIdle ==
  /\ ucBefore = None
  /\ ucArg = None
  /\ ucPrev = None
  /\ ucCount = 0

(***************************************************************************)
(* Specifications                                                          *)
(***************************************************************************)
RetryIdle ==
  /\ rhMaxRetries = 0 /\ rhBaseDelayMs = 0 /\ rhPc = "idle" /\ rhAttempt = 0
  /\ rhLastError = Null /\ rhCalls = <<>> /\ rhWaits = <<>> /\ rhResult = Null
LimiterIdle ==
  /\ rlLimit = 0 /\ rlWindowMs = 0 /\ now = 0 /\ lastRequestTime = 0
  /\ rlPc = [c \in Callers |-> "off"] /\ rlWakeAt = [c \in Callers |-> 0]
  /\ grants = <<>>

MainIdle ==
  /\ config = [discoverTraders |-> 0] /\ pc = "idle" /\ idx = 0 /\ runId = None
  /\ runStatus = "none" /\ addresses = <<>> /\ phase1Results = <<>>
  /\ phase1PassList = <<>> /\ metricsResults = <<>> /\ scoredAccounts = <<>>
  /\ selected = <<>> /\ processedAccounts = <<>> /\ errors = <<>> /\ upserted = {}
  /\ recorded = <<>> /\ thrown = None /\ phase1Calls = <<>> /\ phase2Calls = <<>>
  /\ storeCalls = <<>> /\ completeRunCalls = <<>> /\ failRunCalls = <<>>

\* the sync pipeline
Init == MainInit /\ RetryIdle /\ LimiterIdle /\ FamIdle /\ FetchAllIdle /\ DiscoverIdle /\ SelectIdle /\ MetricsIdle /\ ScoreIdle /\ NormalizeIdle /\ ConcurrentIdle /\ FetchIdle /\ CriteriaIdle
Next == MainNext
Spec == Init /\ [][Next]_vars
\* one invocation of executeWithRetry
InitRetry == RetryInit /\ LimiterIdle /\ MainIdle /\ FamIdle /\ FetchAllIdle /\ DiscoverIdle /\ SelectIdle /\ MetricsIdle /\ ScoreIdle /\ NormalizeIdle /\ ConcurrentIdle /\ FetchIdle /\ CriteriaIdle
SpecRetry == InitRetry /\ [][RetryNext]_vars
\* one RateLimiter shared by concurrent callers
InitLimiter == LimiterInit /\ RetryIdle /\ MainIdle /\ FamIdle /\ FetchAllIdle /\ DiscoverIdle /\ SelectIdle /\ MetricsIdle /\ ScoreIdle /\ NormalizeIdle /\ ConcurrentIdle /\ FetchIdle /\ CriteriaIdle
SpecLimiter == InitLimiter /\ [][LimiterNext]_vars
\* one RateLimiter whose acquire() calls do not overlap
SpecLimiterSeq == InitLimiter /\ [][LimiterSeqNext]_vars
\* one call of fetchAccountMetrics
InitFam == FamInit /\ RetryIdle /\ LimiterIdle /\ MainIdle /\ FetchAllIdle /\ DiscoverIdle /\ SelectIdle /\ MetricsIdle /\ ScoreIdle /\ NormalizeIdle /\ ConcurrentIdle /\ FetchIdle /\ CriteriaIdle
SpecFam == InitFam /\ [][FamNext]_vars
\* one call of _fetchAllActivity
InitFetchAll == FetchAllInit /\ RetryIdle /\ LimiterIdle /\ MainIdle /\ FamIdle /\ DiscoverIdle /\ SelectIdle /\ MetricsIdle /\ ScoreIdle /\ NormalizeIdle /\ ConcurrentIdle /\ FetchIdle /\ CriteriaIdle
SpecFetchAll == InitFetchAll /\ [][FetchAllNext]_vars
\* one call of discoverTradersFromTrades; every request settles
InitDiscover ==
  /\ DiscoverInit /\ RetryIdle /\ LimiterIdle /\ MainIdle /\ FamIdle
  /\ FetchAllIdle /\ SelectIdle /\ MetricsIdle /\ ScoreIdle /\ NormalizeIdle /\ ConcurrentIdle /\ FetchIdle /\ CriteriaIdle
SpecDiscover == InitDiscover /\ [][DiscoverNext]_vars /\ WF_vars(DiscoverNext)
\* one AccountSelector and one select call
InitSelect ==
  /\ SelectInit /\ RetryIdle /\ LimiterIdle /\ MainIdle /\ FamIdle
  /\ FetchAllIdle /\ DiscoverIdle /\ MetricsIdle /\ ScoreIdle /\ NormalizeIdle /\ ConcurrentIdle /\ FetchIdle /\ CriteriaIdle
SpecSelect == InitSelect /\ [][SelectNext]_vars
\* one calculateMetrics call and one scoreBatch over its result
InitMetrics ==
  /\ MetricsInit /\ RetryIdle /\ LimiterIdle /\ MainIdle /\ FamIdle
  /\ FetchAllIdle /\ DiscoverIdle /\ SelectIdle /\ ScoreIdle /\ NormalizeIdle /\ ConcurrentIdle /\ FetchIdle /\ CriteriaIdle
SpecMetrics == InitMetrics /\ [][MetricsNext]_vars

InitScore ==
  /\ ScoreInit /\ RetryIdle /\ LimiterIdle /\ MainIdle /\ FamIdle
  /\ FetchAllIdle /\ DiscoverIdle /\ SelectIdle /\ MetricsIdle /\ NormalizeIdle /\ ConcurrentIdle /\ FetchIdle /\ CriteriaIdle
SpecScore == InitScore /\ [][ScoreNext]_vars

InitNormalize ==
  /\ NormalizeInit /\ RetryIdle /\ LimiterIdle /\ MainIdle /\ FamIdle
  /\ FetchAllIdle /\ DiscoverIdle /\ SelectIdle /\ MetricsIdle /\ ScoreIdle /\ ConcurrentIdle /\ FetchIdle /\ CriteriaIdle
SpecNormalize == InitNormalize /\ [][NormalizeNext]_vars

InitConcurrent ==
  /\ ConcurrentInit /\ RetryIdle /\ LimiterIdle /\ MainIdle /\ FamIdle
  /\ FetchAllIdle /\ DiscoverIdle /\ SelectIdle /\ MetricsIdle /\ ScoreIdle
  /\ NormalizeIdle /\ FetchIdle /\ CriteriaIdle
SpecConcurrent == InitConcurrent /\ [][ConcurrentNext]_vars

InitFetch ==
  /\ FetchInit /\ RetryIdle /\ LimiterIdle /\ MainIdle /\ FamIdle
  /\ FetchAllIdle /\ DiscoverIdle /\ SelectIdle /\ MetricsIdle /\ ScoreIdle
  /\ NormalizeIdle /\ ConcurrentIdle /\ CriteriaIdle
SpecFetch == InitFetch /\ [][FetchNext]_vars

InitFamPaged ==
  /\ FamInit /\ FetchAllInit /\ RetryIdle /\ LimiterIdle /\ MainIdle
  /\ DiscoverIdle /\ SelectIdle /\ MetricsIdle /\ ScoreIdle /\ NormalizeIdle
  /\ ConcurrentIdle /\ FetchIdle /\ CriteriaIdle
SpecFamPaged == InitFamPaged /\ [][FamPagedNext]_vars

InitCriteria ==
  /\ CriteriaInit /\ RetryIdle /\ LimiterIdle /\ MainIdle /\ FamIdle
  /\ FetchAllIdle /\ DiscoverIdle /\ MetricsIdle /\ ScoreIdle /\ NormalizeIdle
  /\ ConcurrentIdle /\ FetchIdle
SpecCriteria == InitCriteria /\ [][CriteriaNext]_vars

(***************************************************************************)
(* Properties of RetryHandler.executeWithRetry (SpecRetry)                 *)
(***************************************************************************)
FailedAt(i) == ~rhCalls[i].ok
RetryableStatus(s) == s = NoStatus \/ s = 429 \/ s >= 500
Finished == rhPc \in {"returned", "thrown"}

\* C6: one invocation calls the operation at most maxRetries + 1 times; every
\* attempt but the last one was a retryable failure; a successful attempt is
\* the last one and its value is what the invocation returns.
C6_AtMostNPlusOneAttempts ==
  /\ Len(rhCalls) <= rhMaxRetries + 1
  /\ \A i \in 1..Len(rhCalls) :
       /\ i < Len(rhCalls) => (FailedAt(i) /\ RetryableStatus(rhCalls[i].status))
       /\ rhCalls[i].ok => (i = Len(rhCalls) /\ rhPc = "returned" /\ rhResult = rhCalls[i])
  /\ rhPc = "returned" => (Len(rhCalls) >= 1 /\ rhCalls[Len(rhCalls)].ok)

C6_Witness ==
  /\ rhPc = "returned"
  /\ rhMaxRetries >= 2
  /\ Len(rhCalls) = rhMaxRetries + 1

\* C7: a failed attempt with attempts remaining is retried iff its error has
\* no status, status 429 or status >= 500; an error with any other status is
\* rethrown at once: it is the last attempt, it is the error thrown, and no
\* wait follows it.
C7_RetryIffRetryable ==
  \A i \in 1..Len(rhCalls) :
    FailedAt(i) =>
      LET retried == i < Len(rhCalls) \/ rhPc \in {"sleeping", "call"} IN
      /\ (i - 1 < rhMaxRetries) => (retried <=> RetryableStatus(rhCalls[i].status))
      /\ ~RetryableStatus(rhCalls[i].status) =>
           /\ i = Len(rhCalls)
           /\ rhPc = "thrown"
           /\ rhResult = rhCalls[i]
           /\ Len(rhWaits) = i - 1

C7_Witness ==
  /\ rhMaxRetries >= 1
  /\ Len(rhCalls) = 1
  /\ FailedAt(1) /\ rhCalls[1].status = 404
  /\ rhPc = "thrown" /\ rhWaits = <<>>

\* C8: the wait after the k-th failed attempt (k = 0, 1, ...) is
\* baseDelayMs * 2^k; outcomes 503, 503, success return on the third attempt
\* after exactly the waits <<d, 2d>>.
C8_ExponentialWaits ==
  /\ \A k \in 1..Len(rhWaits) : rhWaits[k] = rhBaseDelayMs * 2^(k - 1)
  /\ rhPc = "sleeping" => Len(rhWaits) = Len(rhCalls)
  /\ Finished => Len(rhWaits) = Len(rhCalls) - 1
  /\ ( /\ Len(rhCalls) = 3
       /\ FailedAt(1) /\ rhCalls[1].status = 503
       /\ FailedAt(2) /\ rhCalls[2].status = 503
       /\ rhCalls[3].ok )
     => (rhPc = "returned" /\ rhWaits = <<rhBaseDelayMs, 2 * rhBaseDelayMs>>)

C8_Witness ==
  /\ Len(rhCalls) = 3
  /\ FailedAt(1) /\ rhCalls[1].status = 503
  /\ FailedAt(2) /\ rhCalls[2].status = 503
  /\ rhCalls[3].ok
  /\ rhPc = "returned"
  /\ rhMaxRetries = 3

\* C9: when all maxRetries + 1 attempts fail with retryable errors the
\* invocation throws the error of the last attempt after exactly maxRetries
\* waits.
AllAttemptsFailedRetryable ==
  /\ Len(rhCalls) = rhMaxRetries + 1
  /\ \A i \in 1..Len(rhCalls) : FailedAt(i) /\ RetryableStatus(rhCalls[i].status)

C9_ExhaustionThrowsLastError ==
  AllAttemptsFailedRetryable =>
    /\ rhPc = "thrown"
    /\ rhResult = rhCalls[rhMaxRetries + 1]
    /\ rhResult.id = rhMaxRetries
    /\ Len(rhWaits) = rhMaxRetries

C9_Witness ==
  /\ AllAttemptsFailedRetryable
  /\ rhMaxRetries >= 2
  /\ rhPc = "thrown"

(***************************************************************************)
(* Properties of RateLimiter.acquire (SpecLimiter)                         *)
(***************************************************************************)
\* C10: with callers whose acquire() calls overlap, any two grants of the
\* limiter are still at least minInterval = windowMs / limit apart.
C10_ConcurrentGrantsSpaced ==
  \A i, j \in 1..Len(grants) :
    i < j => (grants[j].time - grants[i].time) * rlLimit >= rlWindowMs

(***************************************************************************)
(* Properties of the sync pipeline (Spec)                                  *)
(***************************************************************************)
AddressesOf(calls) == [i \in 1..Len(calls) |-> calls[i][1]]
Threw(calls, a) == \E i \in 1..Len(calls) : calls[i][1] = a /\ calls[i][2] # "ok"
NumFailed(calls) == Cardinality({i \in 1..Len(calls) : calls[i][2] # "ok"})
NumFailures == NumFailed(phase1Calls) + NumFailed(phase2Calls) + NumFailed(storeCalls)
EntriesFor(a, type) ==
  Cardinality({i \in 1..Len(errors) : errors[i].address = a /\ errors[i].type = type})
\* the step main() has reached, or the step whose exception ended it
Reached == IF thrown = None THEN pc ELSE thrown[1].step
AfterPhase1 == {"phase2", "store", "recordSelected", "completeRun", "close", "done"}
AfterPhase2 == AfterPhase1 \ {"phase2"}
AfterStore == AfterPhase2 \ {"store"}
Ended == pc \in {"done", "exited", "crashed"}

\* C1: enrichWithActivity is called for an address only if its Phase 1 fetch
\* resolved with metrics having winRate (strictWinRate, 0 when null) >=
\* minWinRate and realizedPnl >= minPnl; an address whose Phase 1 fetch threw
\* or whose metrics miss a threshold never gets a Phase 2 call.
BelowThreshold(m) ==
  \/ Coalesce(m.strictWinRate, 0) < config.minWinRate
  \/ m.realizedPnl < config.minPnl

C1_Phase2OnlyAfterPhase1Pass ==
  /\ \A i \in 1..Len(phase2Calls) :
       \E j \in 1..Len(phase1Results) :
          /\ phase1Results[j].address = phase2Calls[i][1]
          /\ <<phase2Calls[i][1], "ok">> \in Range(phase1Calls)
          /\ ~BelowThreshold(phase1Results[j].metrics)
  /\ \A a \in Range(addresses) :
       ( \/ Threw(phase1Calls, a)
         \/ \E j \in 1..Len(phase1Results) :
               phase1Results[j].address = a /\ BelowThreshold(phase1Results[j].metrics) )
       => a \notin Range(AddressesOf(phase2Calls))

C1_Witness ==
  /\ pc = "done"
  /\ Len(phase2Calls) >= 1
  /\ \E j \in 1..Len(phase1Results) :
        /\ BelowThreshold(phase1Results[j].metrics)
        /\ phase1Results[j].metrics.realizedPnl < config.minPnl
        /\ phase1Results[j].address \notin Range(AddressesOf(phase2Calls))

\* C2: an address whose Phase 2 call threw is in metricsResults (and in the
\* scored accounts) exactly once, with its Phase 1 metrics, and has exactly
\* one phase2_failure error entry.
C2_Phase2FailureKeepsPhase1Metrics ==
  \A i \in 1..Len(phase2Calls) :
    phase2Calls[i][2] = "throw" =>
      LET a == phase2Calls[i][1]
          at == {j \in 1..Len(metricsResults) : metricsResults[j].address = a}
      IN /\ Cardinality(at) = 1
         /\ \A j \in at : \E k \in 1..Len(phase1Results) :
               phase1Results[k].address = a /\ metricsResults[j] = phase1Results[k].metrics
         /\ EntriesFor(a, "phase2_failure") = 1
         /\ Reached \in AfterPhase2 =>
              Cardinality({j \in 1..Len(scoredAccounts) : scoredAccounts[j].address = a}) = 1

C2_Witness ==
  /\ pc = "store"
  /\ Len(metricsResults) >= 2
  /\ \E i \in 1..Len(phase2Calls) : phase2Calls[i][2] = "throw"
  /\ \E i \in 1..Len(phase2Calls) : phase2Calls[i][2] = "ok"

\* C3: every per-address failure (Phase 1 fetch, Phase 2 fetch, upsert or
\* snapshot) leaves exactly one {address, type, message} entry in errors, and
\* none stops its loop: Phase 1 fetches every address, Phase 2 every address
\* of the pass list, and the storage loop persists every scored account.
C3_PerAddressFailuresIsolated ==
  /\ \A a \in Range(addresses) :
       /\ EntriesFor(a, "phase1_failure") = IF Threw(phase1Calls, a) THEN 1 ELSE 0
       /\ EntriesFor(a, "phase2_failure") = IF Threw(phase2Calls, a) THEN 1 ELSE 0
       /\ EntriesFor(a, "storage_failure") = IF Threw(storeCalls, a) THEN 1 ELSE 0
  /\ Len(errors) = NumFailures
  /\ \A i \in 1..Len(errors) : DOMAIN errors[i] = {"address", "type", "message"}
  /\ Reached \in AfterPhase1 => AddressesOf(phase1Calls) = addresses
  /\ Reached \in AfterPhase2 =>
       AddressesOf(phase2Calls) = [i \in 1..Len(phase1PassList) |-> phase1PassList[i].address]
  /\ Reached \in AfterStore =>
       AddressesOf(storeCalls) = [i \in 1..Len(scoredAccounts) |-> scoredAccounts[i].address]

C3_Witness ==
  /\ pc = "done"
  /\ Len(storeCalls) >= 2
  /\ storeCalls[1][2] # "ok"
  /\ storeCalls[2][2] = "ok"
  /\ phase2Calls[1][2] = "throw"
  /\ Len(errors) = 2

\* C4: while no exception has escaped the per-address handlers failRun is
\* never called and the run is never failed; such a run ends with exactly
\* one completeRun call whose stats carry the number of per-address errors.
C4_AddressErrorsNeverFailRun ==
  /\ thrown = None =>
       /\ failRunCalls = <<>>
       /\ runStatus # "failed"
       /\ pc \notin {"failRun", "exited", "crashed"}
       /\ Len(completeRunCalls) <= 1
  /\ pc \in {"close", "done"} =>
       /\ thrown = None
       /\ Len(completeRunCalls) = 1
       /\ completeRunCalls[1].runId = runId
       /\ completeRunCalls[1].stats.accounts_failed = NumFailures
       /\ runStatus = "completed"
  /\ (failRunCalls # <<>> \/ runStatus = "failed") => thrown # None

C4_Witness ==
  /\ pc = "done"
  /\ NumFailed(phase1Calls) >= 1
  /\ NumFailed(storeCalls) >= 1
  /\ completeRunCalls[1].stats.accounts_failed >= 2

\* C5 as stated: after a pipeline-level exception with a run id, failRun is
\* called exactly once with the message, completeRun is not called, and the
\* run ends in status failed.
C5_PipelineFailureAsStated ==
  (Ended /\ thrown # None /\ runId # None) =>
     /\ Len(failRunCalls) = 1
     /\ failRunCalls[1] = [runId |-> runId, message |-> thrown[1].message]
     /\ completeRunCalls = <<>>
     /\ runStatus = "failed"

\* C5 amended: after a pipeline-level exception with a run id, failRun is
\* called exactly once with the message and the run is never marked
\* completed; completeRun was called only if it is the step that threw; the
\* run ends failed when failRun succeeds and stays running when failRun
\* itself throws; no run is both completed and failed.
C5_PipelineFailureReported ==
  /\ (thrown # None /\ runId # None) =>
       /\ pc \in {"failRun", "exited", "crashed"}
       /\ pc = "failRun" => failRunCalls = <<>>
       /\ pc # "failRun" =>
            /\ Len(failRunCalls) = 1
            /\ failRunCalls[1] = [runId |-> runId, message |-> thrown[1].message]
       /\ runStatus # "completed"
       /\ completeRunCalls # <<>> =>
            (thrown[1].step = "completeRun" /\ Len(completeRunCalls) = 1)
       /\ pc = "exited" => runStatus = "failed"
       /\ pc = "crashed" => runStatus = "running"
  /\ runStatus = "completed" => (failRunCalls = <<>> /\ pc \in {"close", "done"})
  /\ runStatus = "failed" => pc = "exited"

C5_Witness ==
  /\ pc = "exited"
  /\ runStatus = "failed"
  /\ thrown # None
  /\ thrown[1].step = "completeRun"
  /\ Len(completeRunCalls) = 1
  /\ Len(failRunCalls) = 1

\* C11: when acquire() calls do not overlap, any two consecutive grants are at
\* least minInterval = windowMs / limit apart, and every grant sets
\* lastRequestTime to the grant time.
C11_SequentialGrantsSpaced ==
  /\ \A i \in 1..Len(grants) - 1 :
        (grants[i + 1].time - grants[i].time) * rlLimit >= rlWindowMs
  /\ Len(grants) > 0 => lastRequestTime = grants[Len(grants)].time

(***************************************************************************)
(* Properties of fetchAccountMetrics (SpecFam)                             *)
(***************************************************************************)
\* C12: whatever sources fail, the call resolves with a metrics record in
\* which each failed source counts as an empty collection, _partialSuccess is
\* true iff some source failed, and _failedEndpoints lists exactly the failed
\* sources.
C12_PartialFailureDegrades ==
  /\ famPc \in {"init", "waiting", "resolved"}
  /\ (famPc = "waiting" /\ \A src \in SourceNames : fetchState[src] \in {"fulfilled", "rejected"})
        => ENABLED ComputeMetrics
  /\ famPc = "resolved" =>
       LET r == famMetrics[1]
           failed == {src \in SourceNames : fetchState[src] = "rejected"}
       IN /\ r.metrics._positions =
                IF "positions" \in failed THEN <<>> ELSE fetchValue["positions"]
          /\ r.metrics._closedPositions =
                IF "closedPositions" \in failed THEN <<>> ELSE fetchValue["closedPositions"]
          /\ r.metrics._activity =
                IF "activity" \in failed THEN <<>> ELSE fetchValue["activity"]
          /\ "positions" \in failed =>
                (r.metrics.positionsCount = 0 /\ r.metrics.proxyWinRate = None)
          /\ "closedPositions" \in failed =>
                (r.metrics.closedPositions = 0 /\ r.metrics.strictWinRate = None)
          /\ "activity" \in failed =>
                (r.metrics.totalTrades = 0 /\ r.metrics.totalVolumeUsd = 0)
          /\ r._partialSuccess <=> (failed # {})
          /\ Range(r._failedEndpoints) = failed
          /\ Len(r._failedEndpoints) = Cardinality(failed)

C12_Witness ==
  /\ famPc = "resolved"
  /\ \A src \in SourceNames : fetchState[src] = "rejected"
  /\ famMetrics[1]._partialSuccess
  /\ Len(famMetrics[1]._failedEndpoints) = 3

\* C13: all three fetches are started before the call first suspends, and the
\* call resolves only when all three have settled: no fetch is skipped or
\* still in flight when fetchAccountMetrics returns, whichever fetch fails
\* and whenever.
C13_WaitsForAllThree ==
  /\ famPc = "waiting" => \A src \in SourceNames : fetchState[src] # "notStarted"
  /\ famPc = "resolved" =>
       \A src \in SourceNames : fetchState[src] \in {"fulfilled", "rejected"}
  /\ famPc \in {"init", "waiting", "resolved"}

C13_Witness ==
  /\ famPc = "waiting"
  /\ fetchState["positions"] = "rejected"
  /\ fetchState["closedPositions"] = "request"
  /\ fetchState["activity"] = "throttle"

(***************************************************************************)
(* Properties of _fetchAllActivity (SpecFetchAll)                          *)
(***************************************************************************)
\* the records of the first n received pages
RECURSIVE RecordsThrough(_)
RecordsThrough(n) ==
  IF n = 0 THEN <<>>
  ELSE RecordsThrough(n - 1) \o (IF faPages[n] = None THEN <<>> ELSE faPages[n][1])

VolumeOf(records) == SumSeq([i \in 1..Len(records) |-> records[i].usdcSize])

HasTimestamp(body) ==
  /\ body # None
  /\ \E i \in 1..Len(body[1]) : body[1][i].timestamp # 0

\* t is the smallest timestamp present on the page
IsEarliestOf(t, body) ==
  /\ \E i \in 1..Len(body[1]) : body[1][i].timestamp = t /\ t # 0
  /\ \A i \in 1..Len(body[1]) : body[1][i].timestamp # 0 => t <= body[1][i].timestamp

\* C14: once the pages received bring the record count to minTradesForStop or
\* the usdcSize sum to minVolumeForStop, no further page is requested.
C14_EarlyStopEndsPaging ==
  \A n \in 1..Len(faPages) :
     ( \/ Len(RecordsThrough(n)) >= faCfg.minTradesForStop
       \/ VolumeOf(RecordsThrough(n)) >= faCfg.minVolumeForStop )
     => /\ Len(faRequests) = n
        /\ faPc = "done"

\* early stop on the first page, below the page limit and inside the window
C14_Witness ==
  /\ faPc = "done"
  /\ Len(faPages) = 1
  /\ faCfg.maxActivityPages > 1
  /\ HasTimestamp(faPages[1])
  /\ \A t \in 0..7 : IsEarliestOf(t, faPages[1]) => t > faCfg.afterTimestamp
  /\ VolumeOf(RecordsThrough(1)) >= faCfg.minVolumeForStop
  /\ Len(RecordsThrough(1)) < faCfg.minTradesForStop

\* C15: whatever the pages contain, at most maxActivityPages page requests are
\* issued, and when the last of them has settled the call has ended.
C15_PageRequestsBounded ==
  /\ Len(faRequests) <= faCfg.maxActivityPages
  /\ Len(faPages) <= Len(faRequests)
  /\ (Len(faRequests) = faCfg.maxActivityPages /\ faPc # "request")
        => faPc \in {"done", "threw"}

\* the page limit is what ends a call whose pages repeat the same records
C15_Witness ==
  /\ faPc = "done"
  /\ faCfg.maxActivityPages = MaxActivityPagesBound
  /\ Len(faPages) = MaxActivityPagesBound
  /\ \A n \in 1..Len(faPages) : faPages[n] = Some(<<Activity(7, 0)>>)

\* C16: no page is requested after an empty page or after a page whose
\* earliest timestamp is at or before afterTimestamp; the first request has no
\* before parameter and every later one carries the earliest timestamp of the
\* page received just before it.
C16_WindowEndsPagingAndCursorMoves ==
  /\ \A n \in 1..Len(faPages) :
        ( \/ faPages[n] = None
          \/ faPages[n] = Some(<<>>)
          \/ \E t \in 0..faCfg.afterTimestamp : IsEarliestOf(t, faPages[n]) )
        => (Len(faRequests) = n /\ faPc = "done")
  /\ Len(faRequests) > 0 => faRequests[1].before = None
  /\ \A n \in 2..Len(faRequests) :
        /\ faRequests[n].before # None
        /\ IsEarliestOf(faRequests[n].before[1], faPages[n - 1])

\* a second request went out with the earliest timestamp of a two-record page
C16_Witness ==
  /\ Len(faRequests) = 2
  /\ faPages[1] = Some(<<Activity(7, 0), Activity(5, 0)>>)
  /\ faRequests[2].before = Some(5)

(***************************************************************************)
(* Properties of discoverTradersFromTrades (SpecDiscover)                  *)
(***************************************************************************)
DiscoverEnded == dtPc \in {"done", "threw"}

\* records on the first n bodies received
RECURSIVE ScannedThrough(_)
ScannedThrough(n) ==
  IF n = 0 THEN 0 ELSE ScannedThrough(n - 1) + Len(dtBodies[n].items)

\* C17: the call ends whenever every request settles; no request is issued
\* once numTrades records have been scanned, and none after a page without a
\* next cursor.
C17_DiscoveryStops ==
  /\ [](/\ \A n \in 1..Len(dtRequests) : ScannedThrough(n - 1) < numTrades
        /\ \A n \in 1..Len(dtBodies) :
              (ScannedThrough(n) >= numTrades \/ dtBodies[n].next_cursor = "")
                 => (Len(dtRequests) = n /\ DiscoverEnded))
  /\ <>DiscoverEnded

\* the call ended on an empty page, short of numTrades
C17_Witness ==
  /\ dtPc = "done"
  /\ Len(dtBodies) = 1
  /\ dtBodies[1].items = <<>>
  /\ fetched < numTrades

\* C18: the Set returned holds exactly the non-empty proxyWallet values of
\* the records on the pages fetched.
C18_DistinctWalletsReturned ==
  dtPc = "done" =>
    /\ dtResult # None
    /\ dtResult[1] =
         { w \in Wallets :
             /\ w # ""
             /\ \E n \in 1..Len(dtBodies) : \E i \in 1..Len(dtBodies[n].items) :
                   dtBodies[n].items[i].proxyWallet = w }

\* a page with a repeated wallet and a record without one
C18_Witness ==
  /\ dtPc = "done"
  /\ Len(dtBodies) = 1
  /\ dtBodies[1].items = <<Trade("0xA"), Trade(""), Trade("0xA")>>
  /\ dtResult = Some({"0xA"})

(***************************************************************************)
(* Properties of AccountSelector.select (SpecSelect)                       *)
(***************************************************************************)
Selected == IF selection = None THEN {} ELSE Range(selection[1].selected)

NoWinRate(a) == a.strictWinRate = None /\ a.proxyWinRate = None

\* the five thresholds on the account's own totals
MeetsFive(a, c) ==
  /\ a.totalTrades >= c.minTrades
  /\ a.totalVolumeUsd >= c.minVolumeUsd
  /\ \/ a.strictWinRate # None /\ a.strictWinRate[1] >= c.minWinRate
     \/ a.strictWinRate = None /\ a.proxyWinRate # None
                               /\ a.proxyWinRate[1] >= c.minWinRate
  /\ a.confidenceScore >= c.minConfidence
  /\ a.realizedPnl >= c.minPnl

\* the account as the filter reads it: with use90dMetrics, each 90-day field
\* that is present stands in for the total
AsFiltered(a, c) ==
  IF ~c.use90dMetrics THEN a
  ELSE [a EXCEPT
          !.strictWinRate = IF a.winRate90d # None THEN a.winRate90d ELSE @,
          !.totalTrades = IF a.trades90d # None THEN a.trades90d[1] ELSE @,
          !.totalVolumeUsd = IF a.volume90d # None THEN a.volume90d[1] ELSE @,
          !.realizedPnl = IF a.realizedPnl90d # None THEN a.realizedPnl90d[1] ELSE @]

\* C19 as stated: every selected account meets the five thresholds on
\* totalTrades, totalVolumeUsd, strictWinRate else proxyWinRate,
\* confidenceScore and realizedPnl, and _stats.passedFilters counts the input
\* accounts that do.
C19_FiveThresholdsAsStated ==
  selection # None =>
    /\ \A a \in Selected : MeetsFive(a, criteria)
    /\ selection[1]._stats.passedFilters =
         Cardinality({i \in 1..Len(selInput) : MeetsFive(selInput[i], criteria)})

\* C19: every selected account meets the five thresholds, and
\* _stats.passedFilters counts the input accounts that do, where with
\* use90dMetrics the thresholds apply to winRate90d, trades90d, volume90d and
\* realizedPnl90d whenever the account carries them.
C19_FiveThresholdsOnFilteredValues ==
  selection # None =>
    /\ \A a \in Selected : MeetsFive(AsFiltered(a, criteria), criteria)
    /\ selection[1]._stats.passedFilters =
         Cardinality({i \in 1..Len(selInput) :
                        MeetsFive(AsFiltered(selInput[i], criteria), criteria)})

\* one account selected, one rejected for its realized PnL
C19_Witness ==
  /\ selection # None
  /\ Len(selInput) = 2
  /\ selInput[1] = GoodAccount
  /\ selInput[2].realizedPnl < criteria.minPnl /\ selInput[2].realizedPnl90d = None
  /\ Selected = {GoodAccount}
  /\ selection[1]._stats.passedFilters = 1

FallbackWinRate(a, c) ==
  IF c.use90dMetrics /\ a.winRate90d # None THEN a.winRate90d ELSE a.proxyWinRate

\* C21 as stated: no account with a null strictWinRate is ever selected.
C21_NullStrictAsStated ==
  \A a \in Selected : a.strictWinRate # None

\* C21: an account with a null strictWinRate is selected only on the strength
\* of its fallback win rate (proxyWinRate, or winRate90d under use90dMetrics),
\* which must be non-null and at least minWinRate.
C21_NullStrictNeedsFallback ==
  \A a \in Selected :
     a.strictWinRate = None =>
        /\ FallbackWinRate(a, criteria) # None
        /\ FallbackWinRate(a, criteria)[1] >= criteria.minWinRate

\* an account without strictWinRate is selected on its proxyWinRate at
\* minWinRate = 0, and one whose proxyWinRate is below minWinRate is not
C21_Witness ==
  /\ selection # None
  /\ \E a \in Selected :
        a.strictWinRate = None /\ a.winRate90d = None /\ a.proxyWinRate # None
  /\ \E i \in 1..Len(selInput) :
        /\ selInput[i].strictWinRate = None
        /\ selInput[i] \notin Selected

\* the input accounts that pass the filter
Survivors ==
  {selInput[i] : i \in {j \in 1..Len(selInput) :
                           MeetsFive(AsFiltered(selInput[j], criteria), criteria)}}

\* C22: selected is ordered by compositeScore, highest first, and no survivor
\* of the filter left out of it scores strictly higher than a selected account.
C22_RankedByScore ==
  selection # None =>
    LET sel == selection[1].selected IN
    /\ \A i \in 1..Len(sel) - 1 : sel[i].compositeScore >= sel[i + 1].compositeScore
    /\ \A a \in Survivors \ Selected : \A b \in Selected :
          a.compositeScore <= b.compositeScore

\* two survivors given lowest first, topN = 1: the higher one is selected
C22_Witness ==
  /\ selection # None
  /\ criteria.topN = 1
  /\ Len(selInput) = 2
  /\ selInput[1] \in Survivors /\ selInput[2] \in Survivors
  /\ selInput[1].compositeScore < selInput[2].compositeScore
  /\ selection[1].selected = <<selInput[2]>>

\* the input positions of the accounts that pass the filter
SurvivorIndexes ==
  {i \in 1..Len(selInput) : selInput[i] \in Survivors}

\* C23: selected accounts with the same compositeScore keep their input
\* order, and of tied survivors the one earlier in the input is the one kept
\* at the topN cut.  Accounts are told apart by their input position f[i],
\* so that an input naming the same account twice is covered.
C23_RankingStable ==
  selection # None =>
    LET sel == selection[1].selected IN
    \E f \in [1..Len(sel) -> SurvivorIndexes] :
      /\ \A i \in 1..Len(sel) : sel[i] = selInput[f[i]]
      /\ \A i \in 1..Len(sel) : \A j \in (i + 1)..Len(sel) :
            /\ f[i] # f[j]
            /\ sel[i].compositeScore = sel[j].compositeScore => f[i] < f[j]
      /\ \A k \in SurvivorIndexes \ {f[i] : i \in 1..Len(sel)} :
            \A i \in 1..Len(sel) :
               selInput[k].compositeScore = sel[i].compositeScore => f[i] < k

\* two different tied survivors, topN = 1: the first is kept
C23_Witness ==
  /\ selection # None
  /\ criteria.topN = 1
  /\ Len(selInput) = 2
  /\ selInput[1] # selInput[2]
  /\ selInput[1] \in Survivors /\ selInput[2] \in Survivors
  /\ selInput[1].compositeScore = selInput[2].compositeScore
  /\ selection[1].selected = <<selInput[1]>>

\* C24: selected has exactly min(topN, number of accounts passing the filter)
\* entries, and _stats.selectedCount is that number.
C24_TopNTruncates ==
  selection # None =>
    LET passing == Cardinality({i \in 1..Len(selInput) :
                       MeetsFive(AsFiltered(selInput[i], criteria), criteria)})
        expected == IF criteria.topN <= passing THEN criteria.topN ELSE passing
    IN /\ Len(selection[1].selected) = expected
       /\ Len(selection[1].selected) <= criteria.topN
       /\ selection[1]._stats.selectedCount = expected

\* more accounts pass than topN allows
C24_Witness ==
  /\ selection # None
  /\ criteria.topN = 1
  /\ selection[1]._stats.passedFilters = 2
  /\ Len(selection[1].selected) = 1

\* the summary statistics: count, mean win rate, mean volume, mean score,
\* total volume, count and fraction with positive realized PnL
SummaryStatistics ==
  {"count", "avgWinRate", "avgVolume", "avgScore", "totalVolume",
   "profitableCount", "profitablePercent"}

\* C25: when nothing is selected, every summary statistic is present and is
\* the number 0.
C25_EmptySummaryAllZero ==
  (selection # None /\ selection[1].selected = <<>>) =>
     \A stat \in SummaryStatistics :
        /\ stat \in DOMAIN selection[1].summary
        /\ selection[1].summary[stat] = 0

(***************************************************************************)
(* Properties of calculateMetrics and score (SpecMetrics)                  *)
(***************************************************************************)
Wins == Cardinality({i \in 1..Len(mxClosed) : mxClosed[i].realizedPnl > 0})
Losses == Cardinality({i \in 1..Len(mxClosed) : mxClosed[i].realizedPnl < 0})
Neutrals == Cardinality({i \in 1..Len(mxClosed) : mxClosed[i].realizedPnl = 0})

\* C26: strictWinRate is null exactly when winCount + lossCount = 0;
\* otherwise it is winCount / (winCount + lossCount), between 0 and 1; and
\* winCount + lossCount is at most the number of closed positions given.
C26_StrictWinRateNullIffNoOutcome ==
  mxMetrics # None =>
    LET m == mxMetrics[1] IN
    /\ (m.strictWinRate = None) <=> (m.winCount + m.lossCount = 0)
    /\ m.strictWinRate # None =>
          /\ m.strictWinRate = <<m.winCount, m.winCount + m.lossCount>>
          /\ 0 <= m.strictWinRate[1]
          /\ m.strictWinRate[1] <= m.strictWinRate[2]
    /\ m.winCount + m.lossCount <= Len(mxClosed)

\* closed positions that are all neutral: no win rate
C26_Witness ==
  /\ mxMetrics # None
  /\ Len(mxClosed) = 2
  /\ Neutrals = 2
  /\ mxMetrics[1].strictWinRate = None

\* the closed positions without their zero-PnL records
NonNeutral(closedPositions) ==
  SelectSeq(closedPositions, LAMBDA p : p.realizedPnl # 0)

\* C27: wins are exactly the closed positions with realizedPnl > 0, losses
\* those with realizedPnl < 0; zero-PnL records are in neither part of
\* strictWinRate, which is the same with one more or with none of them.
C27_NeutralExcluded ==
  mxMetrics # None =>
    LET m == mxMetrics[1] IN
    /\ m.winCount = Wins
    /\ m.lossCount = Losses
    /\ m.strictWinRate = IF Wins + Losses > 0 THEN <<Wins, Wins + Losses>> ELSE None
    /\ m.strictWinRate =
         calculateMetrics(FamAddress, mxPositions, NonNeutral(mxClosed),
                          mxActivity, FamWindowStart).strictWinRate
    /\ m.strictWinRate =
         calculateMetrics(FamAddress, mxPositions, Append(mxClosed, Closed(0)),
                          mxActivity, FamWindowStart).strictWinRate

\* 6 wins, 3 losses, 1 neutral give 6/9
C27_Witness ==
  /\ mxMetrics # None
  /\ mxClosed = SixThreeOne
  /\ mxMetrics[1].strictWinRate = <<6, 9>>

C30_ScoreKeepsMetrics ==
  mxScored # None =>
    LET batch == mxScored[1].batch
        scored == mxScored[1].scored
    IN /\ Len(scored) = Len(batch)
       /\ \A i \in 1..Len(batch) :
             /\ scored[i].address = batch[i].address
             /\ scored[i].strictWinRate = Hundredths(batch[i].strictWinRate)
             /\ scored[i].proxyWinRate = Hundredths(batch[i].proxyWinRate)
             /\ Some(scored[i].confidenceScore) = Hundredths(batch[i].confidenceScore)
             /\ scored[i].totalTrades = batch[i].totalTrades
             /\ scored[i].totalVolumeUsd = batch[i].totalVolumeUsd
             /\ scored[i].realizedPnl = batch[i].realizedPnl
             /\ batch[i].realizedPnl =
                  SumSeq([j \in 1..Len(batch[i]._positions) |->
                            batch[i]._positions[j].realizedPnl])

(***************************************************************************)
(* Properties of the runner's Phase 2 (Spec)                               *)
(***************************************************************************)
\* the metrics records that Phase 2 enriched
EnrichedResults ==
  {i \in 1..Len(metricsResults) : metricsResults[i].positionsCount # None}

\* C29: for every enriched address the confidenceScore handed to the Scorer
\* is (wins + losses) / (number of open positions), or 0 without open
\* positions (in hundredths).
C29_EnrichedConfidenceRecomputed ==
  \A i \in EnrichedResults :
     LET m == metricsResults[i]
         decided == m.winCount[1] + m.lossCount[1]
         open == m.positionsCount[1]
     IN m.confidenceScore =
          Some(IF open > 0 THEN (decided * 100) \div open ELSE 0)

(***************************************************************************)
(* Properties of AccountScorer.score (SpecScore, SpecMetrics)              *)
(***************************************************************************)
\* spec and metric-definition.md:133  strictWinRate ?? proxyWinRate ?? 0
FirstNonNullWinRate(m) == Coalesce(OrElse(m.strictWinRate, m.proxyWinRate), 0)

\* C31: the win rate weighed into compositeScore is the first non-null of
\* strictWinRate and proxyWinRate, 0 when both are null.
C31_StrictThenProxy ==
  scScored # None =>
    scScored[1].scoreBreakdown.winRateContribution
      = FirstNonNullWinRate(scMetrics) * WinRateWeight * 100

\* a tag is among the reason tags
HasTag(tags, t) == \E i \in 1..Len(tags) : tags[i] = t

\* the rules of the reason tags, read on the fields a ScoredAccount reports
TagRules(a) ==
  [high_winrate |-> AtLeast(a.strictWinRate, 60),
   medium_winrate |-> AtLeast(a.strictWinRate, 50) /\ ~AtLeast(a.strictWinRate, 60),
   high_volume |-> a.totalVolumeUsd >= 10000,
   medium_volume |-> a.totalVolumeUsd >= 1000 /\ a.totalVolumeUsd < 10000,
   high_confidence |-> a.confidenceScore >= 50,
   medium_confidence |-> a.confidenceScore >= 30 /\ a.confidenceScore < 50,
   active_trader |-> a.totalTrades >= 100,
   regular_trader |-> a.totalTrades >= 20 /\ a.totalTrades < 100,
   profitable |-> a.realizedPnl > 0,
   loss_making |-> a.realizedPnl < 0,
   consistent_winner |-> AtLeast(a.strictWinRate, 55) /\ a.closedPositions >= 10]

\* C32: in every ScoredAccount each reason tag is present exactly when its
\* rule holds of the fields that account reports.
C32_TagsMatchReportedFields ==
  mxScored # None =>
    \A i \in 1..Len(mxScored[1].scored) :
       LET a == mxScored[1].scored[i] IN
       \A t \in DOMAIN TagRules(a) : HasTag(a.reasonTags, t) <=> TagRules(a)[t]

\* the unrounded score, in 1/1000000, from the fields the ScoredAccount
\* reports and the win rate score weighs
UnroundedScore(a) ==
  Coalesce(OrElse(a.winRate90d, OrElse(a.strictWinRate, a.proxyWinRate)), 0)
     * WinRateWeight * 100
  + NormalizeVolume(a.totalVolumeUsd) * VolumeWeight
  + a.confidenceScore * ConfidenceWeight * 100

C34_NormalizeVolumeShape ==
  nvResult # None =>
    /\ \A k \in 1..2 :
          /\ nvResult[1][k] >= 0 /\ nvResult[1][k] <= 10000
          /\ (nvInput[k] = None \/ ~AtLeast(nvInput[k], 1)) => nvResult[1][k] = 0
          /\ AtLeast(nvInput[k], 1000000) => nvResult[1][k] = 10000
    /\ (nvInput[1] # None /\ nvInput[2] # None /\ nvInput[1][1] <= nvInput[2][1])
          => nvResult[1][1] <= nvResult[1][2]

\* a volume inside the range and one beyond 1,000,000: below 1, then clamped
C34_Witness ==
  /\ nvResult # None
  /\ nvInput = <<Some(500), Some(2000000)>>
  /\ nvResult[1][1] > 0 /\ nvResult[1][1] < nvResult[1][2]
  /\ nvResult[1][2] = 10000

(***************************************************************************)
(* Properties of concurrent executeWithRetry invocations (SpecConcurrent)  *)
(***************************************************************************)
\* C35: every invocation counts its own attempts: its attempt number is the
\* number of its own failed calls, it gives up on a retryable error only at
\* its own call maxRetries + 1, and its k-th delay is baseDelayMs * 2^(k-1),
\* whatever the other invocations on the handler did.
C35_AttemptsPerInvocation ==
  \A inv \in Invocations :
    /\ ccPc[inv] = "call" => ccAttempt[inv] = Len(ccFailures[inv])
    /\ Len(ccFailures[inv]) <= ccMaxRetries + 1
    /\ (ccPc[inv] = "thrown" /\ IsRetryable(ccFailures[inv][Len(ccFailures[inv])]))
          => Len(ccFailures[inv]) = ccMaxRetries + 1
    /\ Len(ccWaits[inv]) = IF ccPc[inv] = "thrown" /\ ccFailures[inv] # <<>>
                           THEN Len(ccFailures[inv]) - 1
                           ELSE Len(ccFailures[inv])
    /\ \A k \in 1..Len(ccWaits[inv]) :
          ccWaits[inv][k] = ccBaseDelayMs * Pow2(k - 1)

\* one invocation exhausted its attempts while another, having failed as
\* often as it may, succeeded on its last attempt and a third never failed
C35_Witness ==
  /\ ccMaxRetries >= 1
  /\ ccPc["positions"] = "thrown"
  /\ Len(ccFailures["positions"]) = ccMaxRetries + 1
  /\ ccPc["closedPositions"] = "returned"
  /\ Len(ccFailures["closedPositions"]) = ccMaxRetries
  /\ ccPc["activity"] = "returned"
  /\ ccFailures["activity"] = <<>>

(***************************************************************************)
(* Properties of the runner's storage step and Phase 1 screen (Spec)       *)
(***************************************************************************)
\* C36: every account handed to recordSelectedAccounts had its upsertAccount
\* committed earlier in the run.
C36_RecordedWereUpserted ==
  pc = "recordSelected" =>
    \A i \in 1..Len(selected) : selected[i].address \in upserted

\* what the Selector would be given for a Phase 1 result had it been enriched
EnrichedAndScored(r, v) == score(WithConfidence(EnrichedMetrics(r.metrics, v)))

\* C37: once the Phase 1 filter has run, every screened address that would
\* pass the Selector's filter after enrichment is in the Phase 1 pass list.
C37_ScreenConservative ==
  pc = "phase2" =>
    \A i \in 1..Len(phase1Results) : \A v \in EnrichedVariants :
       PassesFilters(EnrichedAndScored(phase1Results[i], v), config)
          => \E j \in 1..Len(phase1PassList) : phase1PassList[j] = phase1Results[i]

(***************************************************************************)
(* Properties of a fetch method as a whole (SpecFetch)                     *)
(***************************************************************************)
\* C38: lastRequestTime has been assigned exactly once per logical fetch
\* started, whatever the number of attempts, and a logical fetch issues no
\* request before its acquire.
C38_OneAcquirePerFetch ==
  /\ lfWrites = Len(lfHttp)
  /\ lfPc = "acquire" => \A k \in 1..Len(lfHttp) : lfHttp[k] >= 1
  /\ \A k \in 1..Len(lfHttp) : lfHttp[k] <= lfMaxRetries + 1
  /\ lfPc = "call" => lfHttp[Len(lfHttp)] = lfAttempt
  /\ lfPc = "sleeping" => lfHttp[Len(lfHttp)] = lfAttempt + 1

\* a page fetched at its third attempt, then a second page requested
C38_Witness ==
  /\ Len(lfHttp) = 2
  /\ lfHttp[1] = 3
  /\ lfHttp[2] >= 1
  /\ lfWrites = 2

(***************************************************************************)
(* Properties of fetchAccountMetrics over the page loop (SpecFamPaged)     *)
(***************************************************************************)
\* C39: when a page request of the activity loop fails, the loop returns
\* nothing, and the metrics name activity among the failed endpoints and
\* carry totalTrades = 0 and totalVolumeUsd = 0, never the partial totals.
C39_FailedPageDiscardsActivity ==
  faPc = "threw" =>
    /\ faResult = None
    /\ fetchState["activity"] \in {"throttle", "rejected"}
    /\ famMetrics # None =>
         /\ \E k \in 1..Len(famMetrics[1]._failedEndpoints) :
               famMetrics[1]._failedEndpoints[k] = "activity"
         /\ famMetrics[1].metrics.totalTrades = 0
         /\ famMetrics[1].metrics.totalVolumeUsd = 0

\* the second page request failed after a first page with records
C39_Witness ==
  /\ faPc = "threw"
  /\ Len(faRequests) = 2
  /\ totalTrades > 0 /\ totalVolume > 0
  /\ famMetrics # None
  /\ famMetrics[1].metrics.totalTrades = 0

(***************************************************************************)
(* Properties of updateCriteria and repeated select (SpecCriteria)         *)
(***************************************************************************)
\* the thresholds updateCriteria accepts: property of its argument, field of
\* the selector
Thresholds ==
  { <<"minTrades", "minTrades">>, <<"minVolume", "minVolumeUsd">>,
    <<"minWinRate", "minWinRate">>, <<"minConfidence", "minConfidence">>,
    <<"topN", "topN">> }

\* C40: the selector holds the new value of every threshold given to the
\* last updateCriteria and the previous value of every other one; each
\* select applies exactly those; and a select repeated without an update in
\* between returns the same selection, the input being left as it was.
C40_UpdateCriteriaApplies ==
  /\ \A t \in Thresholds :
        criteria[t[2]] = IF t[1] \in DOMAIN ucArg THEN ucArg[t[1]] ELSE ucBefore[t[2]]
  /\ selection # None =>
        /\ \A i \in 1..Len(selection[1].selected) :
              LET a == selection[1].selected[i] IN
              /\ a.totalTrades >=
                   (IF "minTrades" \in DOMAIN ucArg THEN ucArg.minTrades
                    ELSE ucBefore.minTrades)
              /\ a.totalVolumeUsd >=
                   (IF "minVolume" \in DOMAIN ucArg THEN ucArg.minVolume
                    ELSE ucBefore.minVolumeUsd)
              /\ a.confidenceScore >=
                   (IF "minConfidence" \in DOMAIN ucArg THEN ucArg.minConfidence
                    ELSE ucBefore.minConfidence)
              /\ OrElse(a.strictWinRate, a.proxyWinRate) # None =>
                   OrElse(a.strictWinRate, a.proxyWinRate)[1] >=
                     (IF "minWinRate" \in DOMAIN ucArg THEN ucArg.minWinRate
                      ELSE ucBefore.minWinRate)
        /\ Len(selection[1].selected) =
              Min(IF "topN" \in DOMAIN ucArg THEN ucArg.topN ELSE ucBefore.topN,
                  selection[1]._stats.passedFilters)
  /\ (ucPrev # None /\ selection # None) => ucPrev = selection

\* topN lowered from 5 to 1 with two accounts passing: the selects after the
\* update return one account, twice the same
C40_Witness ==
  /\ ucArg = [topN |-> 1]
  /\ ucBefore.topN = 5
  /\ Len(select(selInput, ucBefore)) = 2
  /\ selection # None
  /\ ucPrev = selection
  /\ Len(selection[1].selected) = 1

====
